---- MODULE Spec2Model ----
(***************************************************************************)
(* Model of the orbital geometry and visibility engine of icu              *)
(* (pkg/satellite/propagate.go): the pass scanner FindPasses with the      *)
(* sampling loop that feeds it, the regime classifier                      *)
(* DetermineOrbitRegime and the coordinate transform                       *)
(* CalculateObservationAngles; and of the catalog around it: the search    *)
(* (SearchSatellites, FindVisibleSatellites), the merge of TLE and SATCAT  *)
(* data (MergeSatelliteData, TLE.GetNoradID), the staleness test           *)
(* (Config.IsCatalogStale), the Storage, the stats, fetch and get          *)
(* commands and the TLE download of the client (Client.FetchTLEs).         *)
(***************************************************************************)
EXTENDS Integers, Sequences, FiniteSets, TLC

VARIABLES
    \* ---- FindPasses (propagate.go:210-236) and the loops it calls ----
    tle,            \* the *TLE argument: NilTLE or SomeTLE
    startTime,      \* startTime argument (time in whole steps of a clock)
    endTime,        \* endTime argument
    stepSize,       \* stepSize argument (a Duration, may be zero)
    minElevation,   \* minElevation argument (degrees)
    sgp4,           \* the external integrator: what Propagate yields at each time
    pc,             \* position in FindPasses
    t,              \* loop variable of PropagateRange
    positions,      \* local slice of PropagateRange
    observations,   \* slice returned by CalculateObservationAnglesRange
    idx,            \* index of the next element of the range loop of FindPasses
    currentPass,    \* local currentPass (<< >> is the nil slice)
    passes,         \* local passes
    result,         \* returned passes (Nil when an error is returned)
    err,            \* returned error (NoErr is nil)
    \* ---- DetermineOrbitRegime (propagate.go:240-291) ----
    apogee,         \* apogee argument (km)
    perigee,        \* perigee argument (km)
    period,         \* period argument (minutes)
    inclination,    \* inclination argument (tenths of a degree)
    regime,         \* the value returned and the return statement that gave it
    rpc,            \* position in the call of DetermineOrbitRegime
    \* ---- CalculateObservationAngles (propagate.go:144-186) ----
    observer,       \* the *ObserverPosition argument
    satPos,         \* the *SatellitePosition argument
    angles,         \* the returned *ObservationAngles
    observeErr,     \* the failure reported by the call (it has no error result)
    opc,            \* position in the call of CalculateObservationAngles
    \* ---- SearchSatellites, FindVisibleSatellites (storage.go:216-302) ----
    satellites,     \* the satellites argument (a slice of *Satellite)
    criteria,       \* the criteria argument (a VisibilityCriteria)
    results,        \* the slice returned by SearchSatellites
    visible,        \* the slice returned by FindVisibleSatellites
    visErr,         \* the error returned by FindVisibleSatellites
    spc,            \* position in the call
    \* ---- MergeSatelliteData (storage.go:100-165) ----
    tles,           \* the tles argument (a slice of TLE)
    satcats,        \* the satcats argument (a slice of SATCAT)
    merged,         \* the slice returned
    mpc,            \* position in the call
    \* ---- Config.IsCatalogStale (config.go:34-47) ----
    config,         \* the receiver (a *Config)
    catalog,        \* the catalog argument (a *Catalog)
    now,            \* the wall clock read by time.Since
    stale,          \* the value returned
    cpc,            \* position in the call
    \* ---- Storage (storage.go:12-69) ----
    file,           \* catalog.json in the data directory
    call,           \* the last call of Save, Load or Exists with what it returned
    saved,          \* the catalog of the last Save that returned nil, if any
    \* ---- the stats command (cmd/stats.go:28-80) ----
    stpc,           \* position in runStats
    output,         \* the lines printed, by their first words
    fetches,        \* the calls of runFetch made
    \* ---- runFetch and FetchAndMergeCatalog (storage.go:169-186) ----
    requests,       \* the endpoints requested, in order
    fetchErr,       \* the step of runFetch that failed, if any
    \* ---- Client.FetchTLEs (client.go:34-78) ----
    response,       \* what the TLE endpoint answers
    fetched,        \* the TLEs and the error returned
    fpc,            \* position in the call
    \* ---- the get command (cmd/get.go) ----
    noradID,        \* flag --norad
    satName,        \* flag --name
    showTLE,        \* flag --tle
    showPos,        \* flag --position
    showData,       \* flag --data
    verbose,        \* flag --verbose
    follow,         \* flag --follow
    argv,           \* the positional arguments
    observerConfigured,  \* an observer latitude or longitude is configured
    filtered,       \* local filtered of runGet
    shown,          \* what the command has displayed, in order
    gpc,            \* position in runGet and displaySatellitesFollow
    tickerC,        \* ticker.C holds a tick (capacity 1)
    sigChan,        \* sigChan holds a signal (capacity 1)
    clock           \* seconds since the update loop was entered

passVars == <<tle, startTime, endTime, stepSize, minElevation, sgp4, pc, t,
              positions, observations, idx, currentPass, passes, result, err>>

regimeVars == <<apogee, perigee, period, inclination, regime, rpc>>

observeVars == <<observer, satPos, angles, observeErr, opc>>

searchVars == <<satellites, criteria, results, visible, visErr, spc>>

mergeVars == <<tles, satcats, merged, mpc>>

catalogVars == <<searchVars, mergeVars>>

staleVars == <<config, catalog, now, stale, cpc>>

storeVars == <<file, call, saved>>

statsVars == <<stpc, output, fetches>>

commandVars == <<staleVars, storeVars, statsVars>>

fetchVars == <<requests, fetchErr>>

clientVars == <<response, fetched, fpc>>

getVars == <<noradID, satName, showTLE, showPos, showData, verbose, follow,
             argv, observerConfigured, filtered, shown, gpc, tickerC, sigChan,
             clock>>

cliVars == <<fetchVars, clientVars, getVars>>

vars == <<passVars, regimeVars, observeVars, catalogVars, commandVars,
          cliVars>>

----------------------------------------------------------------------------
(* Bounds of the model *)

\* latest endTime tried (startTime is 0)
MaxTime == 3
\* largest stepSize tried, forwards and backwards
MaxStep == 2

\* cap on the samples of one sampling loop (only a stepSize of zero or less
\* reaches it)
MaxSamples == MaxTime + 2

----------------------------------------------------------------------------
(* Values *)

NilTLE == "nil"
SomeTLE == "tle"
\* a nil slice or pointer, and a non-nil one holding v
Nil == [isNil |-> TRUE, val |-> << >>]
Some(v) == [isNil |-> FALSE, val |-> v]
NoErr == "nil"
ErrTLENil == "TLE is nil"
ErrEndBeforeStart == "end time must be after start time"
ErrPropagation == "propagation failed"
\* outcomes of satellite.Propagate: satrec.Error # 0, or a position
Sgp4Fail == [ok |-> FALSE, el |-> 0]
Sgp4Pos(e) == [ok |-> TRUE, el |-> e]

\* elevations (degrees) at which the observer sees the propagated positions
Elevations == {-1, 0, 1}
MinElevations == {0, 1}
Times == 0..MaxTime
StepSizes == (-MaxStep)..MaxStep

----------------------------------------------------------------------------
(* PropagateSatellite, propagate.go:47-76.  A position is stamped with the  *)
(* requested time; El stands for the ECEF vector, named by the elevation   *)
(* at which the observer of this call sees it.  The integrator is any      *)
(* function of the time over Times, repeated before and after them.        *)

Propagate(time) == sgp4[time % (MaxTime + 1)]

PropagateSatellite(tl, time) ==
    IF tl = NilTLE THEN [pos |-> Nil, err |-> ErrTLENil]
    ELSE IF ~Propagate(time).ok THEN [pos |-> Nil, err |-> ErrPropagation]
    ELSE [pos |-> Some([Time |-> time, El |-> Propagate(time).el]),
          err |-> NoErr]

\* CalculateObservationAngles, propagate.go:144-186, as far as the scanner
\* reads it: the time stamp of the position and the elevation.
ObservationOf(pos) == [Time |-> pos.Time, Elevation |-> pos.El]

\* IsVisible, propagate.go:204-206
IsVisibleStrict(obs, minEl) == obs.Elevation > minEl
IsVisible(obs, minEl) == obs.Elevation >= minEl

----------------------------------------------------------------------------
(* Initial state: the arguments of one call of FindPasses *)

InitPasses ==
    /\ tle \in {NilTLE, SomeTLE}
    /\ startTime = 0
    /\ endTime \in -1..MaxTime
    /\ stepSize \in StepSizes
    /\ minElevation \in MinElevations
    /\ sgp4 \in [Times -> {Sgp4Pos(e) : e \in Elevations} \cup {Sgp4Fail}]
    /\ pc = "PropagateRange"
    /\ t = 0
    /\ positions = << >>
    /\ observations = << >>
    /\ idx = 1
    /\ currentPass = << >>
    /\ passes = << >>
    /\ result = Nil
    /\ err = NoErr

\* no call of FindPasses is under way
IdlePasses ==
    /\ tle = NilTLE
    /\ startTime = 0
    /\ endTime = 0
    /\ stepSize = 0
    /\ minElevation = 0
    /\ sgp4 = [u \in Times |-> Sgp4Fail]
    /\ pc = "idle"
    /\ t = 0
    /\ positions = << >>
    /\ observations = << >>
    /\ idx = 1
    /\ currentPass = << >>
    /\ passes = << >>
    /\ result = Nil
    /\ err = NoErr

\* the arguments of FindPasses; no step of it touches the other calls' state
args == <<tle, startTime, endTime, stepSize, minElevation, sgp4, regimeVars,
          observeVars, catalogVars, commandVars, cliVars>>

\* return nil, err (from PropagateRange through CalculateObservationAnglesRange
\* and FindPasses: propagate.go:191-193, 212-214)
ReturnError(e) ==
    /\ pc' = "done"
    /\ result' = Nil
    /\ err' = e

\* PropagateRange entry, propagate.go:81-91
PropagateRangeEnter ==
    /\ pc = "PropagateRange"
    /\ IF tle = NilTLE
         THEN ReturnError(ErrTLENil) /\ UNCHANGED t
         ELSE IF endTime < startTime
           THEN ReturnError(ErrEndBeforeStart) /\ UNCHANGED t
           ELSE /\ pc' = "sample"
                /\ t' = startTime
                /\ UNCHANGED <<result, err>>
    /\ UNCHANGED <<args, positions, observations, idx, currentPass, passes>>

\* one iteration of the sampling loop, propagate.go:91-97
PropagateRangeErrSkip ==
    /\ pc = "sample"
    /\ t <= endTime
    /\ PropagateSatellite(tle, t).err # NoErr
    /\ t' = t + stepSize
    /\ UNCHANGED <<args, pc, positions, observations, idx, currentPass, passes,
                   result, err>>

PropagateRangeErr ==
    /\ pc = "sample"
    /\ t <= endTime
    /\ PropagateSatellite(tle, t).err # NoErr
    /\ ReturnError(ErrPropagation)
    /\ UNCHANGED <<args, t, positions, observations, idx, currentPass, passes>>

\* the sampling loop stepping forwards whatever the step
PropagateRangeSampleForwards ==
    /\ pc = "sample"
    /\ t <= endTime
    /\ Len(positions) < MaxSamples
    /\ PropagateSatellite(tle, t).err = NoErr
    /\ positions' = Append(positions, PropagateSatellite(tle, t).pos.val)
    /\ t' = t + (IF stepSize > 0 THEN stepSize ELSE 1)
    /\ UNCHANGED <<args, pc, observations, idx, currentPass, passes, result, err>>

PropagateRangeSample ==
    /\ pc = "sample"
    /\ t <= endTime
    /\ Len(positions) < MaxSamples
    /\ PropagateSatellite(tle, t).err = NoErr
    /\ positions' = Append(positions, PropagateSatellite(tle, t).pos.val)
    /\ t' = t + stepSize
    /\ UNCHANGED <<args, pc, observations, idx, currentPass, passes, result, err>>

\* the observations computed in the reverse order of the positions
CalculateObservationAnglesRangeReversed ==
    /\ pc = "sample"
    /\ t > endTime
    /\ observations' = [i \in 1..Len(positions) |->
                          ObservationOf(positions[Len(positions) + 1 - i])]
    /\ pc' = "scan"
    /\ idx' = 1
    /\ UNCHANGED <<args, t, positions, currentPass, passes, result, err>>

\* loop exit and CalculateObservationAnglesRange, propagate.go:99, 195-200
CalculateObservationAnglesRange ==
    /\ pc = "sample"
    /\ t > endTime
    /\ observations' = [i \in 1..Len(positions) |-> ObservationOf(positions[i])]
    /\ pc' = "scan"
    /\ idx' = 1
    /\ UNCHANGED <<args, t, positions, currentPass, passes, result, err>>

\* one iteration of the range loop of FindPasses, propagate.go:219-228
ScanStepNoReset ==
    /\ pc = "scan"
    /\ idx <= Len(observations)
    /\ IF IsVisible(observations[idx], minElevation)
         THEN /\ currentPass' = Append(currentPass, observations[idx])
              /\ UNCHANGED passes
         ELSE IF Len(currentPass) > 0
           THEN /\ passes' = Append(passes, currentPass)
                /\ UNCHANGED currentPass
           ELSE UNCHANGED <<passes, currentPass>>
    /\ idx' = idx + 1
    /\ UNCHANGED <<args, pc, t, positions, observations, result, err>>

ScanStepEmitAlways ==
    /\ pc = "scan"
    /\ idx <= Len(observations)
    /\ IF IsVisible(observations[idx], minElevation)
         THEN /\ currentPass' = Append(currentPass, observations[idx])
              /\ UNCHANGED passes
         ELSE /\ passes' = Append(passes, currentPass)
              /\ currentPass' = << >>
    /\ idx' = idx + 1
    /\ UNCHANGED <<args, pc, t, positions, observations, result, err>>

ScanStep ==
    /\ pc = "scan"
    /\ idx <= Len(observations)
    /\ IF IsVisible(observations[idx], minElevation)
         THEN /\ currentPass' = Append(currentPass, observations[idx])
              /\ UNCHANGED passes
         ELSE IF Len(currentPass) > 0
           THEN /\ passes' = Append(passes, currentPass)
                /\ currentPass' = << >>
           ELSE UNCHANGED <<passes, currentPass>>
    /\ idx' = idx + 1
    /\ UNCHANGED <<args, pc, t, positions, observations, result, err>>

\* after the loop, propagate.go:230-235
ScanFinishNoFlush ==
    /\ pc = "scan"
    /\ idx > Len(observations)
    /\ passes' = passes
    /\ result' = Some(passes')
    /\ err' = NoErr
    /\ pc' = "done"
    /\ UNCHANGED <<args, t, positions, observations, idx, currentPass>>

ScanFinish ==
    /\ pc = "scan"
    /\ idx > Len(observations)
    /\ passes' = IF Len(currentPass) > 0 THEN Append(passes, currentPass) ELSE passes
    /\ result' = Some(passes')
    /\ err' = NoErr
    /\ pc' = "done"
    /\ UNCHANGED <<args, t, positions, observations, idx, currentPass>>


----------------------------------------------------------------------------
(* DetermineOrbitRegime, propagate.go:240-291.  Lengths are whole km and    *)
(* periods whole minutes; the inclination is counted in tenths of a degree *)
(* (51.6 degrees is 516).  The halving of propagate.go:248 is kept exact   *)
(* by carrying twice the semi-major axis and twice the average altitude,   *)
(* and the quotient of propagate.go:252 is kept as a fraction.             *)

RegimeLEO == "LEO"
RegimeMEO == "MEO"
RegimeGEO == "GEO"
RegimeHEO == "HEO"
RegimeUnknown == "UNKNOWN"

earthRadius == 6371
\* 5.0 degrees, in tenths of a degree
inclinationTolerance == 50
periodTolerance == 30
altitudeTolerance == 500
geoAltitude == 35786
geoPeriod == 1436
\* the LEO/MEO boundary of propagate.go:276 and 281
leoAltitude == 2000
\* eccentricity above which an orbit is HEO, 0.25, as a fraction
heoEccentricity == [num |-> 1, den |-> 4]

Abs(x) == IF x < 0 THEN -x ELSE x

\* f > g for fractions with positive denominators
FracGT(f, g) == f.num * g.den > g.num * f.den

\* propagate.go:242
InsufficientDataStrict(ap, pe, T) == ap < 0 \/ pe < 0 \/ T < 0
InsufficientData(ap, pe, T) == ap <= 0 \/ pe <= 0 \/ T <= 0

\* twice semiMajorAxis, propagate.go:248
semiMajorAxis2(ap, pe) == (ap + earthRadius) + (pe + earthRadius)
\* twice avgAltitude, propagate.go:249
avgAltitude2(ap, pe) == semiMajorAxis2(ap, pe) - 2 * earthRadius
\* propagate.go:252
eccentricity(ap, pe) == [num |-> ap - pe, den |-> ap + pe + 2 * earthRadius]

\* the geostationary window, propagate.go:269-271
InGeoWindowInclusive(ap, pe, T, inc) ==
    /\ Abs(avgAltitude2(ap, pe) - 2 * geoAltitude) <= 2 * altitudeTolerance
    /\ Abs(T - geoPeriod) <= periodTolerance
    /\ Abs(inc) <= inclinationTolerance
InGeoWindow(ap, pe, T, inc) ==
    /\ Abs(avgAltitude2(ap, pe) - 2 * geoAltitude) < 2 * altitudeTolerance
    /\ Abs(T - geoPeriod) < periodTolerance
    /\ Abs(inc) < inclinationTolerance

Return(r, stmt) == [regime |-> r, ret |-> stmt]

\* the classifier with the geostationary window tested before the shape
DetermineOrbitRegimeWindowFirst(ap, pe, T, inc) ==
    IF InsufficientData(ap, pe, T) THEN Return(RegimeUnknown, "invalid")
    ELSE IF InGeoWindow(ap, pe, T, inc) THEN Return(RegimeGEO, "geo-window")
    ELSE IF FracGT(eccentricity(ap, pe), heoEccentricity)
      THEN Return(RegimeHEO, "heo")
    ELSE IF avgAltitude2(ap, pe) < 2 * leoAltitude THEN Return(RegimeLEO, "leo")
    ELSE IF /\ avgAltitude2(ap, pe) >= 2 * leoAltitude
            /\ avgAltitude2(ap, pe) < 2 * geoAltitude
      THEN Return(RegimeMEO, "meo")
    ELSE IF avgAltitude2(ap, pe) >= 2 * geoAltitude
      THEN Return(RegimeGEO, "geo-altitude")
    ELSE Return(RegimeUnknown, "fallthrough")

\* the returned regime, with the return statement reached:
\* "invalid" 243, "heo" 256, "geo-window" 272, "leo" 277, "meo" 282,
\* "geo-altitude" 287, "fallthrough" 290
DetermineOrbitRegime(ap, pe, T, inc) ==
    IF InsufficientData(ap, pe, T) THEN Return(RegimeUnknown, "invalid")
    ELSE IF FracGT(eccentricity(ap, pe), heoEccentricity)
      THEN Return(RegimeHEO, "heo")
    ELSE IF InGeoWindow(ap, pe, T, inc) THEN Return(RegimeGEO, "geo-window")
    ELSE IF avgAltitude2(ap, pe) < 2 * leoAltitude THEN Return(RegimeLEO, "leo")
    ELSE IF /\ avgAltitude2(ap, pe) >= 2 * leoAltitude
            /\ avgAltitude2(ap, pe) < 2 * geoAltitude
      THEN Return(RegimeMEO, "meo")
    ELSE IF avgAltitude2(ap, pe) >= 2 * geoAltitude
      THEN Return(RegimeGEO, "geo-altitude")
    ELSE Return(RegimeUnknown, "fallthrough")

\* altitudes (km) around every boundary of the policy
Altitudes == {-1, 0, 1, 400, 500, 1999, 2000, 2001, 4249, 4250, 24572, 35286,
              35287, 35785, 35786, 36285, 36286, 40000, 47000}
\* periods (minutes) around the geostationary window
Periods == {-1, 0, 1, 92, 600, 1406, 1407, 1436, 1465, 1466}
\* inclinations (tenths of a degree) around the geostationary window
Inclinations == {-50, -49, 0, 49, 50, 516, 630}

NotCalled == Return("", "")

InitRegime ==
    /\ apogee \in Altitudes
    /\ perigee \in Altitudes
    /\ period \in Periods
    /\ inclination \in Inclinations
    /\ regime = NotCalled
    /\ rpc = "call"

\* no call of DetermineOrbitRegime is under way
IdleRegime ==
    /\ apogee = 0
    /\ perigee = 0
    /\ period = 0
    /\ inclination = 0
    /\ regime = NotCalled
    /\ rpc = "idle"

\* one call of DetermineOrbitRegime
Classify ==
    /\ rpc = "call"
    /\ regime' = DetermineOrbitRegime(apogee, perigee, period, inclination)
    /\ rpc' = "done"
    /\ UNCHANGED <<passVars, cliVars, observeVars, catalogVars, commandVars,
                   apogee, perigee, period, inclination>>


----------------------------------------------------------------------------
(* float64 values of the coordinate transform.  A finite value is           *)
(* (num/den) * Eps^lvl with Eps = 2^-60: lvl 0 holds the ordinary           *)
(* magnitudes (coordinates, angles), lvl 1 the magnitudes so far below one  *)
(* unit in the last place of an ordinary value that adding them to one      *)
(* returns it unchanged (round to nearest), lvl -1 their reciprocals.       *)
(* Besides the finite values there are NaN and the two infinities.          *)
(* Mantissas are exact fractions; square roots are rounded to 1/SqrtScale   *)
(* and angles of ordinary magnitude to whole degrees.  A zero carries its   *)
(* sign in its denominator (1 for +0, -1 for -0).  A result below           *)
(* Eps^MaxLvl underflows to zero and one above Eps^-MaxLvl overflows to an  *)
(* infinity.                                                                *)

\* denominators of the rounded square roots
SqrtScale == 256

\* the levels of float64: Eps^17 = 2^-1020 is a float64, Eps^18 = 2^-1080 is
\* below the smallest one (2^-1074)
MaxLvl == 17

Num(n, d, l) == [kind |-> "num", num |-> n, den |-> d, lvl |-> l]
NaN == [kind |-> "nan", num |-> 0, den |-> 1, lvl |-> 0]
\* s = 1 for +Inf, -1 for -Inf
Inf(s) == [kind |-> "inf", num |-> s, den |-> 1, lvl |-> 0]
Zero == Num(0, 1, 0)
NegZero == Num(0, -1, 0)
One == Num(1, 1, 0)
\* the zero of sign s
ZeroOf(s) == IF s < 0 THEN NegZero ELSE Zero

\* the value of the one expression of S: what the code computes once and
\* keeps in a local variable is bound once
The(S) == CHOOSE r \in S : TRUE

RECURSIVE GCD(_, _)
GCD(a, b) == IF b = 0 THEN a ELSE GCD(b, a % b)

\* the float64 nearest to (n/d) * Eps^l, in lowest terms
Norm(n, d, l) ==
    IF n = 0 THEN Zero
    ELSE LET sg == IF d < 0 THEN -1 ELSE 1
             g == GCD(Abs(n), Abs(d))
         IN  IF l > MaxLvl THEN ZeroOf(sg * n)
             ELSE IF l < -MaxLvl THEN Inf(IF sg * n < 0 THEN -1 ELSE 1)
             ELSE Num((sg * n) \div g, (sg * d) \div g, l)

\* an ordinary value of k units, and a value of k Eps
Whole(k) == Num(k, 1, 0)
Tiny(k) == Norm(k, 1, 1)
\* a value so small that its square underflows
Vanishing(k) == Norm(k, 1, (MaxLvl + 1) \div 2)

IsNaN(x) == x.kind = "nan"
IsInf(x) == x.kind = "inf"
IsFinite(x) == x.kind = "num"
IsZero(x) == IsFinite(x) /\ x.num = 0

\* -1 when the sign bit of x is set, else 1
SignBit(x) == IF x.num < 0 \/ x.den < 0 THEN -1 ELSE 1

FNeg(x) ==
    IF IsZero(x) THEN [x EXCEPT !.den = -x.den]
    ELSE [x EXCEPT !.num = -x.num]

\* x + y rounded to nearest: of two finite values of different magnitude
\* class the sum is the larger one
FAdd(x, y) ==
    IF IsNaN(x) \/ IsNaN(y) THEN NaN
    ELSE IF IsInf(x) THEN (IF IsInf(y) /\ y.num # x.num THEN NaN ELSE x)
    ELSE IF IsInf(y) THEN y
    ELSE IF x.num = 0 /\ y.num = 0
      THEN (IF SignBit(x) < 0 /\ SignBit(y) < 0 THEN NegZero ELSE Zero)
    ELSE IF x.num = 0 THEN y
    ELSE IF y.num = 0 THEN x
    ELSE IF x.lvl < y.lvl THEN x
    ELSE IF y.lvl < x.lvl THEN y
    ELSE IF x.den = y.den THEN Norm(x.num + y.num, x.den, x.lvl)
    ELSE Norm(x.num * y.den + y.num * x.den, x.den * y.den, x.lvl)

FSub(x, y) == FAdd(x, FNeg(y))

\* x * y: a zero product has the sign of the product
FMul(x, y) ==
    IF IsNaN(x) \/ IsNaN(y) THEN NaN
    ELSE IF IsInf(x) \/ IsInf(y)
      THEN (IF IsZero(x) \/ IsZero(y) THEN NaN
            ELSE Inf(SignBit(x) * SignBit(y)))
    ELSE IF y.num = 0 \/ x.num = 0 THEN ZeroOf(SignBit(x) * SignBit(y))
    ELSE Norm(x.num * y.num, x.den * y.den, x.lvl + y.lvl)

Sign(x) == IF x.num > 0 THEN 1 ELSE IF x.num < 0 THEN -1 ELSE 0

\* x / y: 0/0 is NaN and a non-zero value over zero is infinite
FDiv(x, y) ==
    IF IsNaN(x) \/ IsNaN(y) THEN NaN
    ELSE IF IsInf(x) THEN (IF IsInf(y) THEN NaN
                           ELSE Inf(SignBit(x) * SignBit(y)))
    ELSE IF IsInf(y) THEN ZeroOf(SignBit(x) * SignBit(y))
    ELSE IF y.num = 0 THEN (IF x.num = 0 THEN NaN
                            ELSE Inf(SignBit(x) * SignBit(y)))
    ELSE IF x.num = 0 THEN ZeroOf(SignBit(x) * SignBit(y))
    ELSE Norm(x.num * y.den, x.den * y.num, x.lvl - y.lvl)

\* x == y: no NaN equals anything and the two zeros are equal
FEq(x, y) ==
    /\ ~IsNaN(x)
    /\ ~IsNaN(y)
    /\ x = y \/ (IsZero(x) /\ IsZero(y))

\* x < y; false when either is NaN
FLess(x, y) ==
    /\ ~IsNaN(x)
    /\ ~IsNaN(y)
    /\ ~FEq(x, y)
    /\ Sign(FSub(x, y)) < 0

RECURSIVE SqrtSearch(_, _, _)
\* the largest r in lo..hi with r*r <= k
SqrtSearch(k, lo, hi) ==
    IF lo >= hi THEN lo
    ELSE LET mid == (lo + hi + 1) \div 2
         IN  IF mid * mid <= k THEN SqrtSearch(k, mid, hi)
             ELSE SqrtSearch(k, lo, mid - 1)

\* the integer nearest to the square root of k
RoundSqrt(k) ==
    LET r == SqrtSearch(k, 0, IF k < 46340 THEN k ELSE 46340)
    IN  IF k - r * r > r THEN r + 1 ELSE r

\* math.Sqrt: NaN below zero; the level of a sum of squares is even
FSqrt(x) ==
    IF IsNaN(x) THEN NaN
    ELSE IF IsInf(x) THEN (IF x.num > 0 THEN x ELSE NaN)
    ELSE IF x.num < 0 THEN NaN
    ELSE IF x.num = 0 THEN x
    ELSE Norm(RoundSqrt((x.num * SqrtScale * SqrtScale) \div x.den),
              SqrtScale, x.lvl \div 2)

\* 100000 * tan((d - 1/2) degrees) for d = 1..45
TanHalf == <<
    873, 2619, 4366, 6116, 7870, 9629, 11394, 13165, 14945, 16734, 18534,
    20345, 22169, 24008, 25862, 27732, 29621, 31530, 33460, 35412, 37388,
    39391, 41421, 43481, 45573, 47698, 49858, 52057, 54296, 56577, 58905,
    61280, 63707, 66189, 68728, 71329, 73996, 76733, 79544, 82434, 85408,
    88473, 91633, 94896, 98270 >>

\* 100000 * sin((d - 1/2) degrees) for d = 1..90
SinHalf == <<
    873, 2618, 4362, 6105, 7846, 9585, 11320, 13053, 14781, 16505, 18224,
    19937, 21644, 23345, 25038, 26724, 28402, 30071, 31730, 33381, 35021,
    36650, 38268, 39875, 41469, 43051, 44620, 46175, 47716, 49242, 50754,
    52250, 53730, 55194, 56641, 58070, 59482, 60876, 62251, 63608, 64945,
    66262, 67559, 68835, 70091, 71325, 72537, 73728, 74896, 76041, 77162,
    78261, 79335, 80386, 81412, 82413, 83389, 84339, 85264, 86163, 87036,
    87882, 88701, 89493, 90259, 90996, 91706, 92388, 93042, 93667, 94264,
    94832, 95372, 95882, 96363, 96815, 97237, 97630, 97992, 98325, 98629,
    98902, 99144, 99357, 99540, 99692, 99813, 99905, 99966, 99996 >>

\* 180.0 / math.Pi (propagate.go:153, 160) to seven digits
DegPerRad == Num(4068, 71, 0)

\* atan(p/q) in whole degrees for 0 <= p <= q, q > 0
OctantDeg(p, q) ==
    Cardinality({d \in 1..Len(TanHalf) : p * 100000 >= TanHalf[d] * q})

\* atan(|y|/|x|) in whole degrees, 0..90, for finite non-zero values of one level
AtanDeg(y, x) ==
    LET p == Abs(y.num) * x.den
        q == y.den * Abs(x.num)
    IN  IF p <= q THEN OctantDeg(p, q) ELSE 90 - OctantDeg(q, p)

\* math.Atan2(y, x) * 180.0 / math.Pi for finite y and x, propagate.go:152-153
Atan2Deg(y, x) ==
    IF ~IsFinite(y) \/ ~IsFinite(x) THEN NaN
    ELSE IF y.num = 0
      THEN (IF SignBit(x) < 0 THEN Whole(180 * SignBit(y)) ELSE y)
    ELSE IF x.num = 0 THEN Whole(90 * Sign(y))
    ELSE IF y.lvl > x.lvl
      THEN (IF x.num > 0 THEN FMul(FDiv(y, x), DegPerRad)
            ELSE Whole(180 * Sign(y)))
    ELSE IF y.lvl < x.lvl THEN Whole(90 * Sign(y))
    ELSE IF x.num > 0 THEN Whole(Sign(y) * AtanDeg(y, x))
    ELSE Whole(Sign(y) * (180 - AtanDeg(y, x)))

\* math.Asin(q) * 180.0 / math.Pi, propagate.go:159-160: NaN outside [-1, 1]
AsinDeg(q) ==
    IF IsNaN(q) \/ IsInf(q) THEN NaN
    ELSE IF q.num = 0 THEN q
    ELSE IF q.lvl > 0 THEN FMul(q, DegPerRad)
    ELSE IF q.lvl < 0 \/ Abs(q.num) > q.den THEN NaN
    ELSE Whole(Sign(q) * Cardinality({d \in 1..Len(SinHalf) :
                           Abs(q.num) * 100000 >= SinHalf[d] * q.den}))

\* math.Sin and math.Cos of deg * math.Pi / 180.0 (propagate.go:106-121),
\* at the angle where both are exact
SinDeg(deg) == CASE deg = 0 -> Zero
CosDeg(deg) == CASE deg = 0 -> One

----------------------------------------------------------------------------
(* ECEFToTopocentric, propagate.go:104-140 *)

\* x to the nearest multiple of 1/scale
RoundTo(x, scale) ==
    Norm((2 * x.num * scale + x.den) \div (2 * x.den), scale, x.lvl)

\* WGS84 constants, propagate.go:112-116: f to three digits and e2 to the
\* nearest 1/150, so that the products of propagate.go:123-127 stay exact
wgs84a == Num(6378137, 1000, 0)
wgs84f == FDiv(One, Whole(298))
wgs84e2 == RoundTo(FSub(FMul(Whole(2), wgs84f), FMul(wgs84f, wgs84f)), 150)

\* propagate.go:108
obsAltKm(obs) == FDiv(Whole(obs.Altitude), Whole(1000))

\* the observer's ECEF position, propagate.go:106-127
ObserverECEF(obs) ==
    LET sinLat == SinDeg(obs.Latitude)
        cosLat == CosDeg(obs.Latitude)
        sinLon == SinDeg(obs.Longitude)
        cosLon == CosDeg(obs.Longitude)
    IN  The({[X |-> FMul(FMul(FAdd(N, alt), cosLat), cosLon),
              Y |-> FMul(FMul(FAdd(N, alt), cosLat), sinLon),
              Z |-> FMul(FAdd(FMul(N, FSub(One, e2)), alt), sinLat)]
             : N \in {FDiv(wgs84a,
                          FSqrt(FSub(One, FMul(FMul(wgs84e2, sinLat), sinLat))))},
               alt \in {obsAltKm(obs)},
               e2 \in {wgs84e2}})

\* the rotation of an ECEF vector into east, north, up; propagate.go:135-137
\* (and 172-174 for the velocity)
RotateENU(obs, dx, dy, dz) ==
    LET sinLat == SinDeg(obs.Latitude)
        cosLat == CosDeg(obs.Latitude)
        sinLon == SinDeg(obs.Longitude)
        cosLon == CosDeg(obs.Longitude)
    IN  [east  |-> FAdd(FMul(FNeg(sinLon), dx), FMul(cosLon, dy)),
         north |-> FAdd(FSub(FMul(FMul(FNeg(sinLat), cosLon), dx),
                             FMul(FMul(sinLat, sinLon), dy)),
                        FMul(cosLat, dz)),
         up    |-> FAdd(FAdd(FMul(FMul(cosLat, cosLon), dx),
                             FMul(FMul(cosLat, sinLon), dy)),
                        FMul(sinLat, dz))]

ECEFToTopocentric(pos, obs) ==
    The({RotateENU(obs, FSub(pos.X, o.X), FSub(pos.Y, o.Y), FSub(pos.Z, o.Z))
         : o \in {ObserverECEF(obs)}})

----------------------------------------------------------------------------
(* CalculateObservationAngles, propagate.go:144-186 *)

\* propagate.go:154-156
NormalizeAzimuth(azimuthDeg) ==
    IF FLess(azimuthDeg, Zero) THEN FAdd(azimuthDeg, Whole(360))
    ELSE azimuthDeg

AnglesFromOpeningNegative(time, enu, v) ==
    LET east == enu.east
        north == enu.north
        up == enu.up
    IN  The({[Time |-> time,
              Azimuth |-> NormalizeAzimuth(Atan2Deg(east, north)),
              Elevation |-> AsinDeg(FDiv(up, rangeKm)),
              Range |-> rangeKm,
              RangeRate |-> FDiv(FNeg(FAdd(FAdd(FMul(east, v.east),
                                           FMul(north, v.north)),
                                      FMul(up, v.up))),
                                 rangeKm)]
             : rangeKm \in {FSqrt(FAdd(FAdd(FMul(east, east),
                                            FMul(north, north)),
                                       FMul(up, up)))}})

\* propagate.go:149-185, from the topocentric position and velocity
AnglesFrom(time, enu, v) ==
    LET east == enu.east
        north == enu.north
        up == enu.up
    IN  The({[Time |-> time,
              Azimuth |-> NormalizeAzimuth(Atan2Deg(east, north)),
              Elevation |-> AsinDeg(FDiv(up, rangeKm)),
              Range |-> rangeKm,
              RangeRate |-> FDiv(FAdd(FAdd(FMul(east, v.east),
                                           FMul(north, v.north)),
                                      FMul(up, v.up)),
                                 rangeKm)]
             : rangeKm \in {FSqrt(FAdd(FAdd(FMul(east, east),
                                            FMul(north, north)),
                                       FMul(up, up)))}})

CalculateObservationAngles(pos, obs) ==
    The({AnglesFrom(pos.Time, enu, v)
         : enu \in {ECEFToTopocentric(pos, obs)},
           v \in {RotateENU(obs, pos.Vx, pos.Vy, pos.Vz)}})

\* largest whole offset (km) of the satellite from the observer, per axis
MaxOffset == 2

\* observers: on the equator at the prime meridian, altitude in metres
Observers == {[Latitude |-> 0, Longitude |-> 0, Altitude |-> h] : h \in {0, 1000}}
\* offsets of the satellite from the observer along ECEF x: the difference of
\* two coordinates of some 6378 km is a multiple of their last place
OffsetsX == {Whole(k) : k \in -MaxOffset..MaxOffset}
\* offsets along ECEF y and z, where the observer's coordinate is zero: the
\* satellite's coordinate itself, of any magnitude and either zero
OffsetsYZ ==
    OffsetsX \cup {Tiny(-1), Tiny(1), Vanishing(-1), Vanishing(1), NegZero}
Velocities == {Whole(-1), Whole(0), Whole(1)}

NoAngles == [isNil |-> TRUE, val |-> << >>]

InitObserve ==
    /\ observer \in Observers
    /\ \E ox \in OffsetsX, oy \in OffsetsYZ, oz \in OffsetsYZ,
          vx \in Velocities, vy \in Velocities, vz \in Velocities :
         satPos = [Time |-> 0,
                   X |-> FAdd(ObserverECEF(observer).X, ox),
                   Y |-> oy,
                   Z |-> oz,
                   Vx |-> vx, Vy |-> vy, Vz |-> vz]
    /\ angles = NoAngles
    /\ observeErr = NoErr
    /\ opc = "call"

\* no call of CalculateObservationAngles is under way
IdleObserve ==
    /\ observer = [Latitude |-> 0, Longitude |-> 0, Altitude |-> 0]
    /\ satPos = [Time |-> 0, X |-> Zero, Y |-> Zero, Z |-> Zero,
                 Vx |-> Zero, Vy |-> Zero, Vz |-> Zero]
    /\ angles = NoAngles
    /\ observeErr = NoErr
    /\ opc = "idle"

\* one call of CalculateObservationAngles: it returns a value and has no
\* error result
Observe ==
    /\ opc = "call"
    /\ angles' = Some(CalculateObservationAngles(satPos, observer))
    /\ observeErr' = NoErr
    /\ opc' = "done"
    /\ UNCHANGED <<passVars, cliVars, regimeVars, catalogVars, commandVars,
                   observer, satPos>>

----------------------------------------------------------------------------
(* SearchSatellites and FindVisibleSatellites, storage.go:216-302.  A string *)
(* is the sequence of its characters.                                       *)

Lowers == << "a", "b", "c", "d", "e", "f", "g", "h", "i", "j", "k", "l", "m",
             "n", "o", "p", "q", "r", "s", "t", "u", "v", "w", "x", "y", "z" >>
Uppers == << "A", "B", "C", "D", "E", "F", "G", "H", "I", "J", "K", "L", "M",
             "N", "O", "P", "Q", "R", "S", "T", "U", "V", "W", "X", "Y", "Z" >>

\* strings.ToLower and strings.ToUpper
ToLower(str) ==
    [k \in 1..Len(str) |->
       IF \E i \in 1..Len(Uppers) : Uppers[i] = str[k]
         THEN Lowers[CHOOSE i \in 1..Len(Uppers) : Uppers[i] = str[k]]
         ELSE str[k]]
ToUpper(str) ==
    [k \in 1..Len(str) |->
       IF \E i \in 1..Len(Lowers) : Lowers[i] = str[k]
         THEN Uppers[CHOOSE i \in 1..Len(Lowers) : Lowers[i] = str[k]]
         ELSE str[k]]

\* strings.Contains(str, substr)
Contains(str, substr) ==
    \E off \in 0..(Len(str) - Len(substr)) :
        \A k \in 1..Len(substr) : str[off + k] = substr[k]

\* the test of one satellite in the loop of SearchSatellites, storage.go:229-250
MatchesRegimeBySubstring(sat, c) ==
    /\ c.Name = << >> \/ Contains(ToLower(sat.Name), ToLower(c.Name))
    /\ c.Owner = << >> \/ Contains(ToUpper(sat.Owner), ToUpper(c.Owner))
    /\ c.Type = << >> \/ Contains(ToLower(sat.ObjectType), ToLower(c.Type))
    /\ c.Regime = << >> \/ Contains(ToUpper(sat.OrbitRegime), ToUpper(c.Regime))

Matches(sat, c) ==
    /\ c.Name = << >> \/ Contains(ToLower(sat.Name), ToLower(c.Name))
    /\ c.Owner = << >> \/ Contains(ToUpper(sat.Owner), ToUpper(c.Owner))
    /\ c.Type = << >> \/ Contains(ToLower(sat.ObjectType), ToLower(c.Type))
    /\ c.Regime = << >> \/ ToUpper(sat.OrbitRegime) = ToUpper(c.Regime)

\* the slices sort.Slice may leave for the slice sq and the order less (the
\* set of the pairs <<a, b>> with a before b): the sort is not stable, so
\* equal elements come in any order
Sorted(sq, less) ==
    {[i \in 1..Len(sq) |-> sq[perm[i]]] :
        perm \in {f \in Permutations(1..Len(sq)) :
                    \A i, j \in 1..Len(sq) :
                        i < j => <<sq[f[j]], sq[f[i]]>> \notin less}}

\* the elements of the slice sq
Elems(sq) == {sq[i] : i \in 1..Len(sq)}

\* storage.go:254-256
NoradLess(a, b) == a.NoradID < b.NoradID

\* the return values of SearchSatellites(sats, c)
SearchSatellites(sats, c) ==
    LET Keep(sat) == Matches(sat, c)
    IN  The({Sorted(kept, {p \in Elems(kept) \X Elems(kept) :
                                NoradLess(p[1], p[2])}) :
               kept \in {SelectSeq(sats, Keep)}})

\* PropagateSatellite, propagate.go:47-76, on the TLE of a catalog entry: the
\* TLE stands for what satellite.Propagate yields for it at the time of the
\* call
PropagateSatelliteOf(tlePtr, time) ==
    IF tlePtr.isNil THEN [pos |-> Nil, err |-> ErrTLENil]
    ELSE IF ~tlePtr.val.ok THEN [pos |-> Nil, err |-> ErrPropagation]
    ELSE [pos |-> Some([Time |-> time, El |-> tlePtr.val.el]), err |-> NoErr]

\* x >= y and x <= y of float64
FGeq(x, y) == FLess(y, x) \/ FEq(x, y)
FLeq(x, y) == FLess(x, y) \/ FEq(x, y)

\* storage.go:287-288
InElevationBoundsBelowMax(el, c) ==
    FGeq(el, c.MinElevation) /\ FLess(el, c.MaxElevation)

InElevationBounds(el, c) ==
    FGeq(el, c.MinElevation) /\ FLeq(el, c.MaxElevation)

\* storage.go:297-299
ElevationGreater(a, b) == FLess(b.Angles.Elevation, a.Angles.Elevation)

RECURSIVE VisibleAmong(_, _, _)
\* the loop of storage.go:275-294 over the candidates cand
VisibleAmong(cand, time, c) ==
    IF cand = << >> THEN << >>
    ELSE The({
           IF sat.TLE.isNil THEN rest
           ELSE IF p.err # NoErr THEN rest
           ELSE IF InElevationBounds(ObservationOf(p.pos.val).Elevation, c)
             THEN <<[Satellite |-> sat, Angles |-> ObservationOf(p.pos.val)]>>
                  \o rest
           ELSE rest
           : sat \in {Head(cand)},
             p \in {PropagateSatelliteOf(Head(cand).TLE, time)},
             rest \in {VisibleAmong(Tail(cand), time, c)}})

\* the return values of FindVisibleSatellites(sats, observer, time, c)
FindVisibleSatellites(sats, time, c) ==
    {[visible |-> v, err |-> NoErr] :
        v \in UNION {Sorted(vis, {p \in Elems(vis) \X Elems(vis) :
                                    ElevationGreater(p[1], p[2])}) :
                        vis \in {VisibleAmong(cand, time, c) :
                                   cand \in SearchSatellites(sats, c)}}}

\* longest catalog slice tried
MaxSats == 3

TLEFails == Some(Sgp4Fail)
TLEAt(e) == Some(Sgp4Pos(e))

\* the catalog entries the slices are drawn from
SatellitePool ==
    { [NoradID |-> 25544, Name |-> <<"I", "S", "S">>, Owner |-> <<"u", "s">>,
       ObjectType |-> <<"P", "A", "Y">>, OrbitRegime |-> <<"L", "E", "O">>,
       TLE |-> TLEAt(One)],
      [NoradID |-> 5, Name |-> <<"V", "a", "n">>, Owner |-> <<"U", "S">>,
       ObjectType |-> <<"P", "a", "y">>, OrbitRegime |-> <<"M", "E", "O">>,
       TLE |-> TLEFails],
      [NoradID |-> 5, Name |-> <<"i", "s", "s", " ", "d">>,
       Owner |-> <<"C", "I", "S">>, ObjectType |-> <<"D", "E", "B">>,
       OrbitRegime |-> <<"L", "E", "O">>, TLE |-> Nil],
      [NoradID |-> 7, Name |-> << >>, Owner |-> << >>, ObjectType |-> << >>,
       OrbitRegime |-> <<"l", "e", "o">>, TLE |-> TLEAt(Zero)],
      [NoradID |-> 9, Name |-> <<"O", "s", "s", "1">>, Owner |-> <<"U", "S">>,
       ObjectType |-> <<"R", "/", "B">>, OrbitRegime |-> <<"L", "E">>,
       TLE |-> TLEAt(One)],
      [NoradID |-> 11, Name |-> <<"i", "S", "s">>, Owner |-> <<"u", "k">>,
       ObjectType |-> <<"p", "a", "y">>, OrbitRegime |-> <<"H", "E", "O">>,
       TLE |-> TLEAt(NaN)] }

SeqsUpTo(S, n) == UNION {[1..k -> S] : k \in 0..n}

NameCriteria == { << >>, <<"s", "S">>, <<"I", "s">> }
OwnerCriteria == { << >>, <<"u", "S">> }
TypeCriteria == { << >>, <<"p", "A">> }
RegimeCriteria == { << >>, <<"l", "e", "O">>, <<"L", "E">> }
ElevationBounds ==
    { <<Zero, Zero>>, <<Whole(-1), One>>, <<One, Zero>>, <<Zero, NaN>> }

InitSearch ==
    /\ satellites \in SeqsUpTo(SatellitePool, MaxSats)
    /\ \E n \in NameCriteria, o \in OwnerCriteria, ty \in TypeCriteria,
          r \in RegimeCriteria, b \in ElevationBounds :
          criteria = [Name |-> n, Owner |-> o, Type |-> ty, Regime |-> r,
                      MinElevation |-> b[1], MaxElevation |-> b[2]]
    /\ results = Nil
    /\ visible = Nil
    /\ visErr = NoErr
    /\ spc = "call"

\* no search is under way
IdleSearch ==
    /\ satellites = << >>
    /\ criteria = [Name |-> << >>, Owner |-> << >>, Type |-> << >>,
                   Regime |-> << >>, MinElevation |-> Zero,
                   MaxElevation |-> Zero]
    /\ results = Nil
    /\ visible = Nil
    /\ visErr = NoErr
    /\ spc = "idle"

\* one call of SearchSatellites(satellites, criteria.SearchCriteria)
Search ==
    /\ spc = "call"
    /\ \E r \in SearchSatellites(satellites, criteria) : results' = Some(r)
    /\ spc' = "searched"
    /\ UNCHANGED <<passVars, cliVars, regimeVars, observeVars, mergeVars,
                   commandVars, satellites, criteria, visible, visErr>>

\* one call of FindVisibleSatellites(satellites, observer, 0, criteria)
FindVisible ==
    /\ spc = "call"
    /\ \E out \in FindVisibleSatellites(satellites, 0, criteria) :
          /\ visible' = Some(out.visible)
          /\ visErr' = out.err
    /\ spc' = "found"
    /\ UNCHANGED <<passVars, cliVars, regimeVars, observeVars, mergeVars,
                   commandVars, satellites, criteria, results>>

----------------------------------------------------------------------------
(* TLE.GetNoradID, types.go:50-71, and MergeSatelliteData,                  *)
(* storage.go:100-165                                                       *)

Digits == << "0", "1", "2", "3", "4", "5", "6", "7", "8", "9" >>
\* white space, as strings.Fields sees it
Spaces == { " ", "\t" }

\* the length of the first field of a string that starts with none of Spaces
FieldLen(str) ==
    CHOOSE n \in 1..Len(str) :
        /\ \A k \in 1..n : str[k] \notin Spaces
        /\ n = Len(str) \/ str[n + 1] \in Spaces

RECURSIVE Fields(_)
\* strings.Fields
Fields(str) ==
    IF str = << >> THEN << >>
    ELSE IF Head(str) \in Spaces THEN Fields(Tail(str))
    ELSE The({<<SubSeq(str, 1, n)>> \o Fields(SubSeq(str, n + 1, Len(str))) :
                n \in {FieldLen(str)}})

RECURSIVE TrimRight(_, _)
\* strings.TrimRight
TrimRight(str, cutset) ==
    IF str # << >> /\ str[Len(str)] \in cutset
      THEN TrimRight(SubSeq(str, 1, Len(str) - 1), cutset)
      ELSE str

DigitValue(ch) == (CHOOSE i \in 1..Len(Digits) : Digits[i] = ch) - 1
IsDigit(ch) == \E i \in 1..Len(Digits) : Digits[i] = ch

RECURSIVE Decimal(_)
\* the value of a string of decimal digits
Decimal(str) ==
    IF str = << >> THEN 0
    ELSE 10 * Decimal(SubSeq(str, 1, Len(str) - 1)) + DigitValue(str[Len(str)])

\* strconv.Atoi: an optional sign, then one or more decimal digits
Atoi(str) ==
    The({IF body = << >> \/ \E k \in 1..Len(body) : ~IsDigit(body[k])
           THEN [val |-> 0, err |-> TRUE]
           ELSE [val |-> IF str[1] = "-" THEN -Decimal(body) ELSE Decimal(body),
                 err |-> FALSE]
         : body \in {IF str # << >> /\ str[1] \in {"+", "-"}
                       THEN Tail(str) ELSE str}})

\* TLE.GetNoradID, types.go:51-71
GetNoradID(tl) ==
    IF Len(tl.Line1) < 7 THEN 0
    ELSE The({IF Len(parts) < 2 THEN 0
              ELSE The({IF r.err THEN 0 ELSE r.val :
                          r \in {Atoi(TrimRight(parts[2], {"U", "C"}))}})
              : parts \in {Fields(tl.Line1)}})

\* the map built by storage.go:105-111 holding every extracted ID
TleMapOfEveryID(tls) ==
    [id \in {GetNoradID(tls[i]) : i \in 1..Len(tls)} |->
       tls[CHOOSE i \in 1..Len(tls) :
             /\ GetNoradID(tls[i]) = id
             /\ \A j \in (i + 1)..Len(tls) : GetNoradID(tls[j]) # id]]

\* the map built by storage.go:105-111: a later TLE replaces an earlier one
\* of the same ID
TleMap(tls) ==
    [id \in {n \in {GetNoradID(tls[i]) : i \in 1..Len(tls)} : n > 0} |->
       tls[CHOOSE i \in 1..Len(tls) :
             /\ GetNoradID(tls[i]) = id
             /\ \A j \in (i + 1)..Len(tls) : GetNoradID(tls[j]) # id]]

\* the map built by storage.go:113-116
SatcatMap(scs) ==
    [id \in {scs[i].NoradID : i \in 1..Len(scs)} |->
       scs[CHOOSE i \in 1..Len(scs) :
             /\ scs[i].NoradID = id
             /\ \A j \in (i + 1)..Len(scs) : scs[j].NoradID # id]]

\* string(regime), as the characters of the regime's name
RegimeChars(r) ==
    CASE r = RegimeLEO -> <<"L", "E", "O">>
      [] r = RegimeMEO -> <<"M", "E", "O">>
      [] r = RegimeGEO -> <<"G", "E", "O">>
      [] r = RegimeHEO -> <<"H", "E", "O">>
      [] r = RegimeUnknown -> <<"U", "N", "K", "N", "O", "W", "N">>

\* the Satellite built by one round of the loop of storage.go:121-157
MergedSatellite(id, tl, satcatMap) ==
    IF id \in DOMAIN satcatMap
      THEN The({[NoradID |-> id, Name |-> satcat.Name,
                 IntlID |-> satcat.IntlID, ObjectType |-> satcat.ObjectType,
                 Owner |-> satcat.Owner, LaunchDate |-> satcat.LaunchDate,
                 DecayDate |-> satcat.DecayDate,
                 LaunchSite |-> satcat.LaunchSite, Period |-> satcat.Period,
                 Inclination |-> satcat.Inclination,
                 Apogee |-> satcat.Apogee, Perigee |-> satcat.Perigee,
                 RCSSize |-> satcat.RCSSize,
                 OrbitRegime |->
                   RegimeChars(DetermineOrbitRegime(
                     satcat.Apogee, satcat.Perigee, satcat.Period,
                     satcat.Inclination).regime),
                 TLE |-> Some(tl), SATCAT |-> Some(satcat)]
                : satcat \in {satcatMap[id]}})
      ELSE [NoradID |-> id, Name |-> << >>, IntlID |-> << >>,
            ObjectType |-> << >>, Owner |-> << >>, LaunchDate |-> << >>,
            DecayDate |-> << >>, LaunchSite |-> << >>, Period |-> 0,
            Inclination |-> 0, Apogee |-> 0, Perigee |-> 0,
            RCSSize |-> << >>, OrbitRegime |-> RegimeChars(RegimeUnknown),
            TLE |-> Some(tl), SATCAT |-> Nil]

\* the orders in which a range over the map m may visit its keys
RangeOrders(m) ==
    {order \in [1..Cardinality(DOMAIN m) -> DOMAIN m] :
        \A i, j \in 1..Cardinality(DOMAIN m) : i # j => order[i] # order[j]}

\* the return values of MergeSatelliteData(tls, scs)
MergeSatelliteData(tls, scs) ==
    The({UNION {Sorted(sats, {p \in Elems(sats) \X Elems(sats) :
                                NoradLess(p[1], p[2])}) :
                  sats \in {[i \in 1..Len(order) |->
                               MergedSatellite(order[i], tleMap[order[i]],
                                               satcatMap)] :
                             order \in RangeOrders(tleMap)}} :
           tleMap \in {TleMap(tls)}, satcatMap \in {SatcatMap(scs)}})

\* longest slices tried
MaxTLEs == 3
MaxSatcats == 2

Line2 == <<"2">>

\* first lines that GetNoradID reads as 5, 5, 0 (shorter than 7 bytes), 7, 0
\* (one field), 0 (no number), -5, 58 (the second field) and 0
TLEPool ==
    { [Line1 |-> <<"1", " ", "0", "0", "0", "0", "5", "U">>, Line2 |-> Line2],
      [Line1 |-> <<"1", " ", "5", "U", " ", "5", "8">>, Line2 |-> Line2],
      [Line1 |-> <<"1", " ", "7", "C">>, Line2 |-> Line2],
      [Line1 |-> <<"1", "\t", "0", "0", "0", "0", "7", "U", "C">>,
       Line2 |-> Line2],
      [Line1 |-> <<"1", " ", " ", " ", " ", " ", " ", " ">>, Line2 |-> Line2],
      [Line1 |-> <<"1", " ", "A", "B", "C", "D", "E", "U">>, Line2 |-> Line2],
      [Line1 |-> <<"1", " ", "-", "0", "0", "0", "5", "U">>, Line2 |-> Line2],
      [Line1 |-> <<"1", "0", "0", "0", "5", "8", "U", " ", "5", "8">>,
       Line2 |-> Line2],
      [Line1 |-> <<"1", " ", "0", "0", "0", "0", "0", "U">>, Line2 |-> Line2] }

SATCATOf(id, name, ap, pe, T, inc) ==
    [ID |-> name, IntlID |-> name, Name |-> name, NoradID |-> id,
     LaunchDate |-> << >>, DecayDate |-> << >>, ObjectType |-> <<"P", "A", "Y">>,
     Owner |-> <<"U", "S">>, LaunchSite |-> << >>, Period |-> T,
     Inclination |-> inc, Apogee |-> ap, Perigee |-> pe, RCSSize |-> << >>]

SATCATPool ==
    { SATCATOf(5, <<"V", "1">>, 400, 400, 92, 516),
      SATCATOf(5, <<"V", "2">>, 40000, 500, 600, 630),
      SATCATOf(7, <<"G">>, 35786, 35786, 1436, 0),
      SATCATOf(99, <<"X">>, 24572, 24572, 600, 0),
      SATCATOf(0, <<"Z">>, 400, 400, 92, 0),
      SATCATOf(58, << >>, 0, 0, 0, 0) }

InitMerge ==
    /\ tles \in SeqsUpTo(TLEPool, MaxTLEs)
    /\ satcats \in SeqsUpTo(SATCATPool, MaxSatcats)
    /\ merged = Nil
    /\ mpc = "call"

\* no call of MergeSatelliteData is under way
IdleMerge ==
    /\ tles = << >>
    /\ satcats = << >>
    /\ merged = Nil
    /\ mpc = "idle"

\* one call of MergeSatelliteData(tles, satcats)
Merge ==
    /\ mpc = "call"
    /\ \E r \in MergeSatelliteData(tles, satcats) : merged' = Some(r)
    /\ mpc' = "done"
    /\ UNCHANGED <<passVars, cliVars, regimeVars, observeVars, searchVars,
                   commandVars, tles, satcats>>

IdleCatalog == IdleSearch /\ IdleMerge

----------------------------------------------------------------------------
(* Config.IsCatalogStale, config.go:34-47.  A time.Duration is a signed     *)
(* integer of DurationBits bits; the model counts in quarter hours, so     *)
(* that time.Hour is 4, and in 6 bits, so that the products that leave     *)
(* the range are within the ages tried.                                    *)

DurationBits == 6
Hour == 4
MinDuration == -(2 ^ (DurationBits - 1))
MaxDuration == 2 ^ (DurationBits - 1) - 1

\* the value a signed integer of DurationBits bits keeps of x
Wrap(x) == ((x - MinDuration) % (2 ^ DurationBits)) + MinDuration

\* time.Since(u): the difference, or the nearest Duration when it has none
Since(u) ==
    IF now - u > MaxDuration THEN MaxDuration
    ELSE IF now - u < MinDuration THEN MinDuration
    ELSE now - u

\* the test with the catalog examined before the age limit
IsCatalogStaleNilFirst(c, cat) ==
    IF cat.isNil THEN TRUE
    ELSE IF c.MaxCatalogAge = 0 THEN FALSE
    ELSE Since(cat.val.FetchedAt) > Wrap(Wrap(c.MaxCatalogAge) * Hour)

\* Config.IsCatalogStale
IsCatalogStale(c, cat) ==
    IF c.MaxCatalogAge = 0 THEN FALSE
    ELSE IF cat.isNil THEN TRUE
    ELSE Since(cat.val.FetchedAt) > Wrap(Wrap(c.MaxCatalogAge) * Hour)

\* largest MaxCatalogAge tried (hours), latest instant (quarter hours)
MaxAgeLimit == 9
MaxInstant == 40

AgeLimits == (-MaxAgeLimit)..MaxAgeLimit
Instants == 0..MaxInstant
\* the instants at which the clock is read
Clocks == {0, MaxInstant \div 2, MaxInstant}

ConfigOf(age, auto) == [MaxCatalogAge |-> age, AutoFetch |-> auto]
CatalogOf(sats, at) == [Satellites |-> sats, FetchedAt |-> at]

InitStale ==
    /\ \E age \in AgeLimits : config = ConfigOf(age, TRUE)
    /\ catalog \in {Nil} \cup {Some(CatalogOf(<< >>, u)) : u \in Instants}
    /\ now \in Clocks
    /\ stale = FALSE
    /\ cpc = "call"

\* no call of IsCatalogStale is under way
IdleStale ==
    /\ config = ConfigOf(0, FALSE)
    /\ catalog = Nil
    /\ now = 0
    /\ stale = FALSE
    /\ cpc = "idle"

\* one call of config.IsCatalogStale(catalog)
CheckStale ==
    /\ cpc = "call"
    /\ stale' = IsCatalogStale(config, catalog)
    /\ cpc' = "done"
    /\ UNCHANGED <<passVars, cliVars, regimeVars, observeVars, catalogVars,
                   storeVars, statsVars, config, catalog, now>>

----------------------------------------------------------------------------
(* Storage, storage.go:12-69.  The file holds the bytes of a JSON text: all *)
(* of them, or a proper prefix of them after a write that failed.           *)

ErrMarshal == "failed to marshal catalog"
ErrWrite == "failed to write catalog file"
ErrUnmarshal == "failed to unmarshal catalog"

\* the zero time.Time, before every instant of the clock
ZeroTime == -1

\* JSON texts: null, an array, an object
JNull == [kind |-> "null", val |-> << >>]
JArray(elems) == [kind |-> "array", val |-> elems]
JObject(fields) == [kind |-> "object", val |-> fields]

NoFile == [exists |-> FALSE, whole |-> FALSE, json |-> JNull]
Written(text) == [exists |-> TRUE, whole |-> TRUE, json |-> text]
PartlyWritten(text) == [exists |-> TRUE, whole |-> FALSE, json |-> text]

\* json.MarshalIndent(catalog, "", "  "): a nil pointer gives null, a float
\* that is not finite gives an error, a nil slice gives null
MarshalIndent(cat) ==
    IF cat.isNil THEN [data |-> JNull, err |-> NoErr]
    ELSE IF /\ ~cat.val.Satellites.isNil
            /\ \E i \in 1..Len(cat.val.Satellites.val) :
                  ~IsFinite(cat.val.Satellites.val[i].Period)
      THEN [data |-> JNull, err |-> ErrMarshal]
    ELSE [data |-> JObject([satellites |->
                              IF cat.val.Satellites.isNil THEN JNull
                              ELSE JArray(cat.val.Satellites.val),
                            fetched_at |-> cat.val.FetchedAt]),
          err |-> NoErr]

\* var catalog types.Catalog; json.Unmarshal(data, &catalog): null leaves the
\* zero Catalog, a text that breaks off is an error
Unmarshal(f) ==
    IF ~f.whole THEN [catalog |-> Nil, err |-> ErrUnmarshal]
    ELSE IF f.json.kind = "null"
      THEN [catalog |-> Some(CatalogOf(Nil, ZeroTime)), err |-> NoErr]
    ELSE [catalog |-> Some(CatalogOf(IF f.json.val.satellites.kind = "null"
                                       THEN Nil
                                       ELSE Some(f.json.val.satellites.val),
                                     f.json.val.fetched_at)),
          err |-> NoErr]

\* os.WriteFile(path, data, 0644): it opens the file with O_CREATE|O_TRUNC,
\* writes and closes; when it fails the file is as it was (open failed), cut
\* short (write failed) or complete (close failed)
WriteFile(data) ==
    {[file |-> Written(data), err |-> NoErr]}
      \cup {[file |-> f, err |-> ErrWrite] :
              f \in {file, PartlyWritten(data), Written(data)}}

\* the return values of Storage.Save(cat) with the file they leave
StorageSave(cat) ==
    IF MarshalIndent(cat).err # NoErr
      THEN {[file |-> file, err |-> ErrMarshal]}
      ELSE WriteFile(MarshalIndent(cat).data)

\* the return values of Storage.Load(); the file of a directory the process
\* made for itself is readable
StorageLoad ==
    IF ~file.exists THEN [catalog |-> Nil, err |-> NoErr]
    ELSE Unmarshal(file)

\* Storage.Exists()
StorageExists == file.exists

SatelliteOf(id, T) == [NoradID |-> id, Period |-> T]

\* the catalogs saved: none (a nil pointer), the zero Catalog, one with a nil
\* slice, one with an empty slice, one with a satellite, one that cannot be
\* marshalled
CatalogPool ==
    { Nil,
      Some(CatalogOf(Nil, ZeroTime)),
      Some(CatalogOf(Nil, 0)),
      Some(CatalogOf(Some(<< >>), 1)),
      Some(CatalogOf(Some(<<SatelliteOf(5, Whole(92))>>), 1)),
      Some(CatalogOf(Some(<<SatelliteOf(7, NaN)>>), 1)) }

NoCall == [op |-> "none", arg |-> Nil, catalog |-> Nil, err |-> NoErr,
           found |-> FALSE]
NeverSaved == [any |-> FALSE, catalog |-> Nil]

\* NewStorage on a directory without catalog.json
InitStore ==
    /\ file = NoFile
    /\ call = NoCall
    /\ saved = NeverSaved

Save ==
    \E cat \in CatalogPool : \E out \in StorageSave(cat) :
        /\ file' = out.file
        /\ call' = [op |-> "Save", arg |-> cat, catalog |-> Nil,
                    err |-> out.err, found |-> FALSE]
        /\ saved' = IF out.err = NoErr THEN [any |-> TRUE, catalog |-> cat]
                    ELSE saved
        /\ UNCHANGED <<passVars, cliVars, regimeVars, observeVars, catalogVars,
                       staleVars, statsVars>>

Load ==
    /\ call' = [op |-> "Load", arg |-> Nil, catalog |-> StorageLoad.catalog,
                err |-> StorageLoad.err, found |-> FALSE]
    /\ UNCHANGED <<passVars, cliVars, regimeVars, observeVars, catalogVars,
                   staleVars, statsVars, file, saved>>

Exists ==
    /\ call' = [op |-> "Exists", arg |-> Nil, catalog |-> Nil, err |-> NoErr,
                found |-> StorageExists]
    /\ UNCHANGED <<passVars, cliVars, regimeVars, observeVars, catalogVars,
                   staleVars, statsVars, file, saved>>

----------------------------------------------------------------------------
(* The stats command, cmd/stats.go:28-80, with the runFetch it calls,       *)
(* cmd/fetch.go:29-67                                                       *)

LineFetching == "No catalog found. Fetching data..."
LineHint == "No catalog found. Run 'icu fetch' to download data."
LineStale == "Catalog is stale"
LineStatistics == "Catalog Statistics"
LineFetched == "Data fetched successfully"

\* the catalog.json the command may find: none, a catalog fetched at any
\* instant, the text null, a file cut short
FilesFound ==
    {NoFile, Written(JNull), PartlyWritten(JNull)}
      \cup {Written(MarshalIndent(Some(CatalogOf(Some(<< >>), u))).data) :
              u \in Instants}

InitStats ==
    /\ \E age \in AgeLimits, auto \in BOOLEAN : config = ConfigOf(age, auto)
    /\ catalog = Nil
    /\ now \in Clocks
    /\ stale = FALSE
    /\ cpc = "idle"
    /\ file \in FilesFound
    /\ call = NoCall
    /\ saved = NeverSaved
    /\ stpc = "start"
    /\ output = << >>
    /\ fetches = 0

\* the stats command is not run
IdleStats ==
    /\ stpc = "idle"
    /\ output = << >>
    /\ fetches = 0

\* runStats fetching for want of a catalog whatever auto_fetch says
RunStatsAlwaysFetching ==
    /\ stpc = "start"
    /\ catalog' = StorageLoad.catalog
    /\ IF StorageLoad.err # NoErr
         THEN stpc' = "exit-load" /\ UNCHANGED output
         ELSE IF StorageLoad.catalog.isNil
           THEN output' = Append(output, LineFetching) /\ stpc' = "fetch"
         ELSE IF IsCatalogStale(config, StorageLoad.catalog)
           THEN output' = Append(output, LineStale) /\ stpc' = "fetch"
         ELSE output' = Append(output, LineStatistics) /\ stpc' = "returned"
    /\ UNCHANGED <<passVars, cliVars, regimeVars, observeVars, catalogVars,
                   storeVars, config, now, stale, cpc, fetches>>

\* runStats up to its return, its exit in log.Fatalf or its call of runFetch
RunStats ==
    /\ stpc = "start"
    /\ catalog' = StorageLoad.catalog
    /\ IF StorageLoad.err # NoErr
         THEN stpc' = "exit-load" /\ UNCHANGED output
         ELSE IF StorageLoad.catalog.isNil
           THEN IF config.AutoFetch
                  THEN output' = Append(output, LineFetching) /\ stpc' = "fetch"
                  ELSE output' = Append(output, LineHint) /\ stpc' = "returned"
         ELSE IF IsCatalogStale(config, StorageLoad.catalog)
           THEN output' = Append(output, LineStale) /\ stpc' = "fetch"
         ELSE output' = Append(output, LineStatistics) /\ stpc' = "returned"
    /\ UNCHANGED <<passVars, cliVars, regimeVars, observeVars, catalogVars,
                   storeVars, config, now, stale, cpc, fetches>>

ErrFetchTLEs == "failed to fetch TLEs"
ErrFetchSATCATs == "failed to fetch SATCATs"
EndpointTLE == "tle"
EndpointSATCAT == "satcat"

\* FetchAndMergeCatalog with the SATCAT endpoint requested whatever the TLE
\* endpoint answered
FetchAndMergeCatalogBothRequested(tleOk, satcatOk, at) ==
    IF ~tleOk
      THEN [requests |-> <<EndpointTLE, EndpointSATCAT>>, catalog |-> Nil,
            err |-> ErrFetchTLEs]
    ELSE IF ~satcatOk
      THEN [requests |-> <<EndpointTLE, EndpointSATCAT>>, catalog |-> Nil,
            err |-> ErrFetchSATCATs]
    ELSE [requests |-> <<EndpointTLE, EndpointSATCAT>>,
          catalog |-> Some(CatalogOf(Some(<< >>), at)), err |-> NoErr]

\* FetchAndMergeCatalog(client) at the instant at, with the requests it
\* makes; an endpoint fails or answers with no entries, which merge into the
\* empty slice of storage.go:104
FetchAndMergeCatalog(tleOk, satcatOk, at) ==
    IF ~tleOk
      THEN [requests |-> <<EndpointTLE>>, catalog |-> Nil,
            err |-> ErrFetchTLEs]
    ELSE IF ~satcatOk
      THEN [requests |-> <<EndpointTLE, EndpointSATCAT>>, catalog |-> Nil,
            err |-> ErrFetchSATCATs]
    ELSE [requests |-> <<EndpointTLE, EndpointSATCAT>>,
          catalog |-> Some(CatalogOf(Some(<< >>), at)), err |-> NoErr]

\* the fetch command: runFetch on any catalog.json
InitFetch ==
    /\ \E age \in AgeLimits, auto \in BOOLEAN : config = ConfigOf(age, auto)
    /\ catalog = Nil
    /\ now \in Clocks
    /\ stale = FALSE
    /\ cpc = "idle"
    /\ file \in FilesFound
    /\ call = NoCall
    /\ saved = NeverSaved
    /\ stpc = "fetch"
    /\ output = << >>
    /\ fetches = 0

\* runFetch is not under way
IdleFetch ==
    /\ requests = << >>
    /\ fetchErr = NoErr

\* runFetch, run by the fetch command or called by runStats, which returns
\* after it: a download fails and the process exits in log.Fatalf, or the
\* catalog fetched now is saved
RunFetch ==
    /\ stpc = "fetch"
    /\ fetches' = fetches + 1
    /\ \E tleOk \in BOOLEAN, satcatOk \in BOOLEAN :
         \E got \in {FetchAndMergeCatalog(tleOk, satcatOk, now)} :
           /\ requests' = requests \o got.requests
           /\ IF got.err # NoErr
                THEN /\ fetchErr' = got.err
                     /\ stpc' = "exit-fetch"
                     /\ UNCHANGED <<file, call, saved, output>>
                ELSE \E out \in StorageSave(got.catalog) :
                       /\ file' = out.file
                       /\ call' = [op |-> "Save", arg |-> got.catalog,
                                   catalog |-> Nil, err |-> out.err,
                                   found |-> FALSE]
                       /\ fetchErr' = out.err
                       /\ IF out.err = NoErr
                            THEN /\ saved' = [any |-> TRUE,
                                              catalog |-> got.catalog]
                                 /\ output' = Append(output, LineFetched)
                                 /\ stpc' = "returned"
                            ELSE /\ stpc' = "exit-fetch"
                                 /\ UNCHANGED <<saved, output>>
    /\ UNCHANGED <<passVars, clientVars, getVars, regimeVars, observeVars,
                   catalogVars, staleVars>>

IdleCommand == IdleStale /\ InitStore /\ IdleStats

----------------------------------------------------------------------------
(* Client.FetchTLEs, client.go:34-78.  The response body is the sequence of *)
(* the lines bufio.Scanner cuts it into.                                    *)

ErrStatus == "unexpected status code"
ErrReadBody == "failed to read response body"
ErrTooLong == "error reading TLE data"
StatusOK == 200

\* a line longer than the buffer of the Scanner (bufio.MaxScanTokenSize)
LongLine == <<"#">>

\* strings.TrimSpace
RECURSIVE TrimLeft(_, _)
TrimLeft(str, cutset) ==
    IF str # << >> /\ Head(str) \in cutset THEN TrimLeft(Tail(str), cutset)
    ELSE str
TrimSpace(str) == TrimRight(TrimLeft(str, Spaces), Spaces)

\* the loop of FetchTLEs with a blank line counted as a line of an entry
RECURSIVE ScanTLEsCountingBlanks(_, _, _, _)
ScanTLEsCountingBlanks(lines, lineNum, line1, acc) ==
    IF lines = << >>
      THEN [tles |-> IF acc = << >> THEN Nil ELSE Some(acc), err |-> NoErr]
    ELSE IF Head(lines) = LongLine THEN [tles |-> Nil, err |-> ErrTooLong]
    ELSE The({IF lineNum % 2 = 0
                THEN ScanTLEsCountingBlanks(Tail(lines), lineNum + 1, line, acc)
                ELSE ScanTLEsCountingBlanks(
                       Tail(lines), lineNum + 1, line1,
                       Append(acc, [Line1 |-> line1, Line2 |-> line]))
              : line \in {TrimSpace(Head(lines))}})

\* the loop of client.go:56-71 over the lines left, with the check of
\* scanner.Err() of 73-75; acc is tles, nil until the first append
RECURSIVE ScanTLEs(_, _, _, _)
ScanTLEs(lines, lineNum, line1, acc) ==
    IF lines = << >>
      THEN [tles |-> IF acc = << >> THEN Nil ELSE Some(acc), err |-> NoErr]
    ELSE IF Head(lines) = LongLine THEN [tles |-> Nil, err |-> ErrTooLong]
    ELSE The({IF line = << >>
                THEN ScanTLEs(Tail(lines), lineNum, line1, acc)
              ELSE IF lineNum % 2 = 0
                THEN ScanTLEs(Tail(lines), lineNum + 1, line, acc)
              ELSE ScanTLEs(Tail(lines), lineNum + 1, line1,
                            Append(acc, [Line1 |-> line1, Line2 |-> line]))
              : line \in {TrimSpace(Head(lines))}})

\* Client.FetchTLEs on the answer resp of the TLE endpoint
FetchTLEs(resp) ==
    IF resp.err THEN [tles |-> Nil, err |-> ErrFetchTLEs]
    ELSE IF resp.status # StatusOK THEN [tles |-> Nil, err |-> ErrStatus]
    ELSE IF resp.readErr THEN [tles |-> Nil, err |-> ErrReadBody]
    ELSE ScanTLEs(resp.body, 0, << >>, << >>)

\* longest response body tried, in lines
MaxLines == 4

\* the lines of a body: empty, blank, with white space before, after and
\* inside, too long
LinePool ==
    { << >>, <<" ">>, <<"\t", " ">>, <<"1">>, <<" ", "1", " ">>,
      <<"2", "\t">>, <<"a", " ", "b">>, LongLine }

ResponseOf(e, code, r, lines) ==
    [err |-> e, status |-> code, readErr |-> r, body |-> lines]

\* no answer, an answer other than 200, a body that breaks off, a body
Responses ==
    { ResponseOf(TRUE, 0, FALSE, << >>),
      ResponseOf(FALSE, 404, FALSE, <<<<"1">>, <<"2", "\t">>>>),
      ResponseOf(FALSE, StatusOK, TRUE, << >>) }
      \cup {ResponseOf(FALSE, StatusOK, FALSE, lines) :
               lines \in SeqsUpTo(LinePool, MaxLines)}

NotFetched == [tles |-> Nil, err |-> NoErr]

InitClient ==
    /\ response \in Responses
    /\ fetched = NotFetched
    /\ fpc = "call"

\* no call of FetchTLEs is under way
IdleClient ==
    /\ response = ResponseOf(TRUE, 0, FALSE, << >>)
    /\ fetched = NotFetched
    /\ fpc = "idle"

\* one call of client.FetchTLEs()
FetchTLEsCall ==
    /\ fpc = "call"
    /\ fetched' = FetchTLEs(response)
    /\ fpc' = "done"
    /\ UNCHANGED <<passVars, fetchVars, getVars, regimeVars, observeVars,
                   catalogVars, commandVars, response>>


----------------------------------------------------------------------------
(* The get command (unnamed/part_003, the get.go of package cmd that the    *)
(* comments below cite by line): runGet with the filter and the three      *)
(* display modes, and the update loop of displaySatellitesFollow.  What is *)
(* displayed is the sequence of the sections printed, each with the index  *)
(* of its satellite in filtered and the time it was computed for.          *)

Part(i, p, at) == [sat |-> i, part |-> p, at |-> at]
\* a message that belongs to no satellite
Msg(m) == Part(0, m, 0)

SecTLE == "tle"
SecPosition == "position"
SecData == "data"
\* "Error propagating satellite", get.go:297
SecError == "error"
MsgNoObserver == "Observer location not configured"
MsgNoCatalog == "No catalog found"
MsgNoneFound == "No satellites found matching the criteria"
MsgSingleOnly == "Follow mode only supports a single satellite"
MsgNoTLE == "No TLE data available for this satellite"
MsgExiting == "Exiting follow mode..."

RECURSIVE Join(_)
Join(ss) == IF ss = << >> THEN << >> ELSE Head(ss) \o Join(Tail(ss))

\* FilterSatellites(satellites, noradID, name), storage.go:191-214, which
\* is filterSatellites of cmd/get.go
FilterSatellites(sats, id, name) ==
    IF id = 0 /\ name = << >> THEN sats
    ELSE SelectSeq(sats,
                   LAMBDA sat :
                     /\ ~(id > 0 /\ sat.NoradID # id)
                     /\ ~(name # << >> /\ ToLower(sat.Name) # ToLower(name)))

\* the "Current Position" block printed for sat at the time at, when the
\* propagation succeeds
PositionOf(i, sat, at) ==
    IF PropagateSatelliteOf(sat.TLE, at).err = NoErr
      THEN <<Part(i, SecPosition, at)>>
      ELSE << >>

\* one turn of the loop of displaySatellitesComposed
ComposedSections(i, sat, tleFlag, posFlag, dataFlag, obs, at) ==
    (IF tleFlag /\ ~sat.TLE.isNil THEN <<Part(i, SecTLE, 0)>> ELSE << >>)
      \o (IF ~posFlag THEN << >>
          ELSE IF ~obs THEN <<Part(i, MsgNoObserver, 0)>>
          ELSE IF ~sat.TLE.isNil THEN PositionOf(i, sat, at)
          ELSE << >>)
      \o (IF dataFlag THEN <<Part(i, SecData, 0)>> ELSE << >>)

\* displaySatellitesComposed(satellites, showTLE, showPos, showData)
displaySatellitesComposed(sats, tleFlag, posFlag, dataFlag, obs, at) ==
    Join([i \in 1..Len(sats) |->
            ComposedSections(i, sats[i], tleFlag, posFlag, dataFlag, obs, at)])

\* displaySatellitesVerbose(satellites)
displaySatellitesVerbose(sats, obs, at) ==
    Join([i \in 1..Len(sats) |->
            (IF ~sats[i].TLE.isNil THEN <<Part(i, SecTLE, 0)>> ELSE << >>)
              \o (IF obs /\ ~sats[i].TLE.isNil
                    THEN PositionOf(i, sats[i], at) ELSE << >>)
              \o <<Part(i, SecData, 0)>>])

\* displayCurrentPosition(sat, observer) at the time at
displayCurrentPosition(sat, at) ==
    IF PropagateSatelliteOf(sat.TLE, at).err # NoErr
      THEN Part(1, SecError, at)
      ELSE Part(1, SecPosition, at)

\* displaySatellitesFollow(satellites) up to its return or its update loop
displaySatellitesFollow(sats, obs, at) ==
    IF Len(sats) > 1 THEN [shown |-> <<Msg(MsgSingleOnly)>>, pc |-> "returned"]
    ELSE IF Len(sats) = 0 THEN [shown |-> << >>, pc |-> "returned"]
    ELSE IF sats[1].TLE.isNil
      THEN [shown |-> <<Msg(MsgNoTLE)>>, pc |-> "returned"]
    ELSE IF ~obs THEN [shown |-> <<Msg(MsgNoObserver)>>, pc |-> "returned"]
    ELSE [shown |-> <<Part(1, SecTLE, 0), displayCurrentPosition(sats[1], at)>>,
          pc |-> "select"]

\* the branch of get.go:86-100 with verbose tested before follow
DisplayModeVerboseFirst(followFlag, verboseFlag) ==
    IF verboseFlag THEN "verbose"
    ELSE IF followFlag THEN "follow"
    ELSE "composed"

\* the display function runGet calls, get.go:86-100
DisplayMode(followFlag, verboseFlag) ==
    IF followFlag THEN "follow"
    ELSE IF verboseFlag THEN "verbose"
    ELSE "composed"

\* the slice of a catalog loaded
SatellitesOf(cat) ==
    IF cat.val.Satellites.isNil THEN << >> ELSE cat.val.Satellites.val

\* runGet from the filter on, get.go:77-100, with the NORAD ID id in use
GetFiltered(id, cat) ==
    The({IF Len(sats) = 0
           THEN [filtered |-> sats, showTLE |-> showTLE,
                 shown |-> <<Msg(MsgNoneFound)>>, pc |-> "returned"]
         ELSE IF DisplayMode(follow, verbose) = "follow"
           THEN The({[filtered |-> sats, showTLE |-> showTLE,
                      shown |-> f.shown, pc |-> f.pc] :
                     f \in {displaySatellitesFollow(
                              sats, observerConfigured, clock)}})
         ELSE IF DisplayMode(follow, verbose) = "verbose"
           THEN [filtered |-> sats, showTLE |-> showTLE,
                 shown |-> displaySatellitesVerbose(
                             sats, observerConfigured, clock),
                 pc |-> "returned"]
         ELSE The({[filtered |-> sats, showTLE |-> tleFlag,
                    shown |-> displaySatellitesComposed(
                                sats, tleFlag, showPos, showData,
                                observerConfigured, clock),
                    pc |-> "returned"] :
                   tleFlag \in {showTLE \/ (~showPos /\ ~showData)}})
         : sats \in {FilterSatellites(SatellitesOf(cat), id, satName)}})

\* runGet from the load on, get.go:63-100
GetLoaded(id) ==
    IF StorageLoad.err # NoErr
      THEN [catalog |-> Nil, filtered |-> << >>, showTLE |-> showTLE,
            shown |-> << >>, pc |-> "exit-load"]
    ELSE IF StorageLoad.catalog.isNil
      THEN [catalog |-> Nil, filtered |-> << >>, showTLE |-> showTLE,
            shown |-> <<Msg(MsgNoCatalog)>>, pc |-> "returned"]
    ELSE The({[catalog |-> StorageLoad.catalog, filtered |-> g.filtered,
               showTLE |-> g.showTLE, shown |-> g.shown, pc |-> g.pc] :
              g \in {GetFiltered(id, StorageLoad.catalog)}})

\* most satellites of a stored catalog
MaxStored == 2
\* latest second of the update loop told apart
MaxClock == 3

GetPool ==
    {sat \in SatellitePool : sat.NoradID \in {5, 11, 25544}}

\* the catalog.json the command may find: none, the text null, a file cut
\* short, a catalog of satellites
GetFiles ==
    {NoFile, Written(JNull), PartlyWritten(JNull)}
      \cup {Written(JObject([satellites |-> JArray(sats), fetched_at |-> 0])) :
              sats \in SeqsUpTo(GetPool, MaxStored)}

NoradFlags == {0, 5, -5}
NameFlags == {<< >>, <<"i", "s", "s">>, <<"V", "A", "N">>}
Arguments == {<< >>, <<<<"1", "1">>>>, <<<<"x">>>>}

InitGet ==
    /\ noradID \in NoradFlags
    /\ satName \in NameFlags
    /\ showTLE \in BOOLEAN
    /\ showPos \in BOOLEAN
    /\ showData \in BOOLEAN
    /\ verbose \in BOOLEAN
    /\ follow \in BOOLEAN
    /\ argv \in Arguments
    /\ observerConfigured \in BOOLEAN
    /\ filtered = << >>
    /\ shown = << >>
    /\ gpc = "start"
    /\ tickerC = FALSE
    /\ sigChan = FALSE
    /\ clock = 0
    /\ file \in GetFiles
    /\ call = NoCall
    /\ saved = NeverSaved

\* the get command with --follow
InitFollow ==
    /\ InitGet
    /\ follow
    /\ ~showTLE /\ ~showPos /\ ~showData

\* the get command is not run
IdleGet ==
    /\ noradID = 0
    /\ satName = << >>
    /\ showTLE = FALSE
    /\ showPos = FALSE
    /\ showData = FALSE
    /\ verbose = FALSE
    /\ follow = FALSE
    /\ argv = << >>
    /\ observerConfigured = FALSE
    /\ filtered = << >>
    /\ shown = << >>
    /\ gpc = "idle"
    /\ tickerC = FALSE
    /\ sigChan = FALSE
    /\ clock = 0

IdleCli == IdleFetch /\ IdleClient /\ IdleGet

\* runGet(args) up to its return, its exit in log.Fatalf or the update loop
\* of displaySatellitesFollow
RunGet ==
    /\ gpc = "start"
    /\ IF Len(argv) > 0 /\ noradID = 0 /\ satName = << >>
            /\ Atoi(argv[1]).err
         THEN /\ gpc' = "exit-args"
              /\ UNCHANGED <<noradID, catalog, filtered, showTLE, shown>>
         ELSE \E id \in {IF Len(argv) > 0 /\ noradID = 0 /\ satName = << >>
                            THEN Atoi(argv[1]).val ELSE noradID} :
                \E g \in {GetLoaded(id)} :
                  /\ noradID' = id
                  /\ catalog' = g.catalog
                  /\ filtered' = g.filtered
                  /\ showTLE' = g.showTLE
                  /\ shown' = g.shown
                  /\ gpc' = g.pc
    /\ UNCHANGED <<passVars, fetchVars, clientVars, regimeVars, observeVars,
                   catalogVars, storeVars, statsVars, config, now, stale, cpc,
                   satName, showPos, showData, verbose, follow, argv,
                   observerConfigured, tickerC, sigChan, clock>>

\* the runtime sends a tick on ticker.C, a second after the last; the tick
\* is dropped when the channel still holds one
TickerFires ==
    /\ gpc = "select"
    /\ tickerC' = TRUE
    /\ clock' = IF clock < MaxClock THEN clock + 1 ELSE clock
    /\ UNCHANGED <<passVars, fetchVars, clientVars, regimeVars, observeVars,
                   catalogVars, commandVars, noradID, satName, showTLE,
                   showPos, showData, verbose, follow, argv,
                   observerConfigured, filtered, shown, gpc, sigChan>>

\* SIGINT or SIGTERM is delivered: signal.Notify has the runtime send it on
\* sigChan without blocking
SignalArrives ==
    /\ gpc = "select"
    /\ sigChan' = TRUE
    /\ UNCHANGED <<passVars, fetchVars, clientVars, regimeVars, observeVars,
                   catalogVars, commandVars, noradID, satName, showTLE,
                   showPos, showData, verbose, follow, argv,
                   observerConfigured, filtered, shown, gpc, tickerC, clock>>

\* the select of get.go:279 never taking the case of sigChan
FollowExitNever ==
    /\ FALSE
    /\ UNCHANGED vars

\* case <-sigChan, get.go:285-287
FollowExit ==
    /\ gpc = "select"
    /\ sigChan
    /\ sigChan' = FALSE
    /\ shown' = Append(shown, Msg(MsgExiting))
    /\ gpc' = "returned"
    /\ UNCHANGED <<passVars, fetchVars, clientVars, regimeVars, observeVars,
                   catalogVars, commandVars, noradID, satName, showTLE,
                   showPos, showData, verbose, follow, argv,
                   observerConfigured, filtered, tickerC, clock>>

\* case <-ticker.C, get.go:280-283: the cursor moves up over the position
\* displayed and the position of this instant is displayed in its place
FollowTick ==
    /\ gpc = "select"
    /\ tickerC
    /\ tickerC' = FALSE
    /\ shown' = [shown EXCEPT ![Len(shown)] =
                                displayCurrentPosition(filtered[1], clock)]
    /\ UNCHANGED <<passVars, fetchVars, clientVars, regimeVars, observeVars,
                   catalogVars, commandVars, noradID, satName, showTLE,
                   showPos, showData, verbose, follow, argv,
                   observerConfigured, filtered, gpc, sigChan, clock>>

----------------------------------------------------------------------------
(* The specifications: one call of each operation *)

InitClassify ==
    IdlePasses /\ InitRegime /\ IdleObserve /\ IdleCatalog /\ IdleCommand
      /\ IdleCli

NextRegime == Classify

SpecRegime == InitClassify /\ [][NextRegime]_vars

InitObserveCall ==
    IdlePasses /\ IdleRegime /\ InitObserve /\ IdleCatalog /\ IdleCommand
      /\ IdleCli

IdleEngine == IdlePasses /\ IdleRegime /\ IdleObserve

InitSearchCall == IdleEngine /\ InitSearch /\ IdleMerge /\ IdleCommand /\ IdleCli

InitMergeCall == IdleEngine /\ IdleSearch /\ InitMerge /\ IdleCommand /\ IdleCli

NextMerge == Merge

SpecMerge == InitMergeCall /\ [][NextMerge]_vars

NextSearch == Search \/ FindVisible

SpecSearch == InitSearchCall /\ [][NextSearch]_vars

NextObserve == Observe

SpecObserve == InitObserveCall /\ [][NextObserve]_vars

InitStaleCall ==
    IdleEngine /\ IdleCatalog /\ InitStale /\ InitStore /\ IdleStats /\ IdleCli

NextStale == CheckStale

SpecStale == InitStaleCall /\ [][NextStale]_vars

InitStorage ==
    IdleEngine /\ IdleCatalog /\ IdleStale /\ InitStore /\ IdleStats /\ IdleCli

InitStatsCommand == IdleEngine /\ IdleCatalog /\ InitStats /\ IdleCli

NextStats == RunStats \/ RunFetch

InitFetchCommand ==
    IdleEngine /\ IdleCatalog /\ InitFetch /\ IdleFetch /\ IdleClient
      /\ IdleGet

InitClientCall ==
    IdleEngine /\ IdleCatalog /\ IdleCommand /\ IdleFetch /\ InitClient
      /\ IdleGet

NextClient == FetchTLEsCall

SpecClient == InitClientCall /\ [][NextClient]_vars

InitGetCommand ==
    IdleEngine /\ IdleCatalog /\ IdleStale /\ IdleStats /\ IdleFetch
      /\ IdleClient /\ InitGet

InitFollowCommand ==
    IdleEngine /\ IdleCatalog /\ IdleStale /\ IdleStats /\ IdleFetch
      /\ IdleClient /\ InitFollow

NextGet == RunGet \/ TickerFires \/ SignalArrives \/ FollowTick \/ FollowExit

SpecGet == InitGetCommand /\ [][NextGet]_vars

\* the goroutine blocked in the select is woken when a channel can be
\* received from, and the select picks among the ready cases at random, so
\* that no case stays ready for ever without being taken
SpecFollow ==
    /\ InitFollowCommand
    /\ [][NextGet]_vars
    /\ WF_vars(FollowTick)
    /\ WF_vars(FollowExit)

NextFetch == RunFetch

SpecFetch == InitFetchCommand /\ [][NextFetch]_vars

SpecStats == InitStatsCommand /\ [][NextStats]_vars

NextStorage == Save \/ Load \/ Exists

SpecStorage == InitStorage /\ [][NextStorage]_vars

Init ==
    InitPasses /\ IdleRegime /\ IdleObserve /\ IdleCatalog /\ IdleCommand
      /\ IdleCli

Next ==
    \/ PropagateRangeEnter
    \/ PropagateRangeErr
    \/ PropagateRangeSample
    \/ CalculateObservationAnglesRange
    \/ ScanStep
    \/ ScanFinish

Spec == Init /\ [][Next]_vars

\* a call that can take a step takes it
SpecRunning == Spec /\ WF_vars(Next)

----------------------------------------------------------------------------
(* Vocabulary of the pass scanner's properties *)

RECURSIVE Flatten(_)
\* the concatenation of a sequence of passes, in order
Flatten(ps) == IF ps = << >> THEN << >> ELSE Head(ps) \o Flatten(Tail(ps))

AtOrAbove(o) == o.Elevation >= minElevation

\* the subsequence of the samples at or above the threshold
VisibleSamples(obs) == SelectSeq(obs, AtOrAbove)

\* indices at which a maximal contiguous run of visible samples starts
RunStarts(obs) ==
    {i \in 1..Len(obs) : AtOrAbove(obs[i]) /\ (i = 1 \/ ~AtOrAbove(obs[i - 1]))}

Last(s) == s[Len(s)]

Returned == pc = "done" /\ err = NoErr

\* C1: the passes, concatenated in output order, are exactly the samples at or
\* above minElevation in input order (nothing lost, duplicated or reordered):
\* of the samples scanned so far while scanning, of all samples in the result.
PassesConcatIsVisibleSubsequence ==
    /\ pc = "scan" =>
         Flatten(passes) \o currentPass
           = VisibleSamples(SubSeq(observations, 1, idx - 1))
    /\ Returned =>
         /\ ~result.isNil
         /\ Flatten(result.val) = VisibleSamples(observations)

\* a result of two passes around a sample below the threshold
WitnessTwoPasses ==
    /\ Returned
    /\ Len(result.val) = 2
    /\ Len(observations) = MaxTime + 1
    /\ \E i \in 1..Len(observations) : observations[i].Elevation = minElevation

\* C2: as many passes as maximal contiguous runs of samples at or above
\* minElevation, two consecutive passes have a sample below it between them,
\* and no samples or only samples below the threshold give no pass.
PassCountIsRunCount ==
    Returned =>
      /\ Len(result.val) = Cardinality(RunStarts(observations))
      /\ \A k \in 1..(Len(result.val) - 1) :
           \E i \in 1..Len(observations) :
             /\ ~AtOrAbove(observations[i])
             /\ stepSize > 0 =>
                  /\ Last(result.val[k]).Time < observations[i].Time
                  /\ observations[i].Time < Head(result.val[k + 1]).Time
      /\ (\A i \in 1..Len(observations) : ~AtOrAbove(observations[i]))
           => result.val = << >>

\* every sample is below the threshold and nothing is returned
WitnessAllBelow ==
    /\ Returned
    /\ Len(observations) = MaxTime + 1
    /\ \A i \in 1..Len(observations) : observations[i].Elevation < minElevation
    /\ result.val = << >>

\* visible, below, visible, below: two runs, two passes
WitnessRunsCounted ==
    /\ Returned
    /\ Len(observations) >= 4
    /\ Cardinality(RunStarts(observations)) = 2
    /\ ~AtOrAbove(Last(observations))

RECURSIVE SeriesFrom(_)
\* the time series startTime, startTime + stepSize, ... up to endTime from time
\* u on, with every failing sample skipped (stepSize > 0)
SeriesFrom(u) ==
    IF u > endTime THEN << >>
    ELSE IF sgp4[u].ok
      THEN <<[Time |-> u, Elevation |-> sgp4[u].el]>> \o SeriesFrom(u + stepSize)
      ELSE SeriesFrom(u + stepSize)

RECURSIVE RunsOf(_, _)
\* the maximal runs of visible samples of obs; cur is the run being collected
RunsOf(obs, cur) ==
    IF obs = << >> THEN (IF cur = << >> THEN << >> ELSE <<cur>>)
    ELSE IF AtOrAbove(Head(obs)) THEN RunsOf(Tail(obs), Append(cur, Head(obs)))
    ELSE (IF cur = << >> THEN << >> ELSE <<cur>>) \o RunsOf(Tail(obs), << >>)

\* C3: a sample whose propagation fails is skipped and the scan goes on:
\* FindPasses returns the passes of the remaining samples, with no error.
FailingSampleIsSkipped ==
    (pc = "done" /\ tle = SomeTLE /\ endTime >= startTime /\ stepSize > 0) =>
      /\ err = NoErr
      /\ result = Some(RunsOf(SeriesFrom(startTime), << >>))

\* C4: at every point of the scan and in the result, a pass is never empty and
\* holds only samples with elevation >= minElevation, a sample at exactly
\* minElevation is kept, and a sample below the threshold met while no
\* candidate is open emits nothing.
EmittedPassesNonEmptyAndVisible ==
    /\ [](/\ \A k \in 1..Len(passes) :
               /\ passes[k] # << >>
               /\ \A j \in 1..Len(passes[k]) :
                    passes[k][j].Elevation >= minElevation
          /\ \A j \in 1..Len(currentPass) :
               currentPass[j].Elevation >= minElevation
          /\ pc = "scan" =>
               \A i \in 1..(idx - 1) :
                 observations[i].Elevation = minElevation =>
                   \E j \in 1..Len(Flatten(passes) \o currentPass) :
                     (Flatten(passes) \o currentPass)[j] = observations[i]
          /\ Returned => result.val = passes)
    /\ [][(/\ pc = "scan"
           /\ idx <= Len(observations)
           /\ observations[idx].Elevation < minElevation
           /\ currentPass = << >>)
          => (passes' = passes /\ currentPass' = << >>)]_vars

\* a pass that holds a sample at exactly the threshold has been emitted, and
\* the scan is at a sample below the threshold with no candidate open
WitnessThresholdSampleEmitted ==
    /\ pc = "scan"
    /\ idx <= Len(observations)
    /\ observations[idx].Elevation < minElevation
    /\ currentPass = << >>
    /\ \E k \in 1..Len(passes) : \E j \in 1..Len(passes[k]) :
         passes[k][j].Elevation = minElevation

\* C5: when the last sample is at or above the threshold, the candidate open
\* at the end of the scan is the last pass returned; when every sample is, the
\* result is one pass holding all the samples.
OpenCandidateIsEmittedAtEnd ==
    (Returned /\ AtOrAbove(Last(observations))) =>
      /\ result.val # << >>
      /\ Last(Last(result.val)) = Last(observations)
      /\ Last(result.val) = currentPass
      /\ (\A i \in 1..Len(observations) : AtOrAbove(observations[i]))
           => result.val = <<observations>>

\* the scan ended inside a pass that followed an earlier one
WitnessFinalPassOpen ==
    /\ Returned
    /\ AtOrAbove(Last(observations))
    /\ Len(result.val) = 2

\* every sample is visible: one pass spanning the input
WitnessOnePassSpansInput ==
    /\ Returned
    /\ Len(observations) = MaxTime + 1
    /\ result.val = <<observations>>

----------------------------------------------------------------------------
(* Properties of the regime classifier *)

\* the first-match policy as the specification states it, on the inputs'
\* own scale (twice the average altitude is apogee + perigee)
StatedPolicy(ap, pe, T, inc) ==
    IF ap <= 0 \/ pe <= 0 \/ T <= 0 THEN "UNKNOWN"
    ELSE IF 4 * (ap - pe) > ap + pe + 2 * 6371 THEN "HEO"
    ELSE IF /\ Abs((ap + pe) - 2 * 35786) < 2 * 500
            /\ Abs(T - 1436) < 30
            /\ Abs(inc) < 5 * 10
      THEN "GEO"
    ELSE IF ap + pe < 2 * 2000 THEN "LEO"
    ELSE IF ap + pe < 2 * 35786 THEN "MEO"
    ELSE "GEO"

Classified(ap, pe, T, inc) ==
    /\ rpc = "done"
    /\ apogee = ap
    /\ perigee = pe
    /\ period = T
    /\ inclination = inc

\* C7: DetermineOrbitRegime is the stated first-match policy (UNKNOWN, HEO,
\* GEO window, LEO, MEO, GEO) on every input, and classifies the three
\* reference orbits as GEO, LEO and HEO.
RegimeIsStatedPolicy ==
    rpc = "done" =>
      /\ regime.regime = StatedPolicy(apogee, perigee, period, inclination)
      /\ Classified(35786, 35786, 1436, 0) => regime.regime = "GEO"
      /\ Classified(400, 400, 92, 516) => regime.regime = "LEO"
      /\ Classified(40000, 500, 600, 630) => regime.regime = "HEO"

\* the geostationary reference orbit has been classified by the window test
WitnessGeoReference ==
    /\ Classified(35786, 35786, 1436, 0)
    /\ regime = Return(RegimeGEO, "geo-window")

\* an orbit half a kilometre inside the altitude window is GEO, not MEO
WitnessWindowEdge ==
    /\ Classified(35287, 35286, 1465, 49)
    /\ regime.regime = "GEO"

EccentricOrbitIsHEO ==
    (/\ rpc = "done"
     /\ apogee > 0 /\ perigee > 0 /\ period > 0
     /\ 4 * (apogee - perigee) > apogee + perigee + 2 * 6371)
      => regime.regime = "HEO"

\* an eccentric orbit inside the geostationary window has been classified HEO
WitnessEccentricInGeoWindow ==
    /\ rpc = "done"
    /\ 4 * (apogee - perigee) > apogee + perigee + 2 * 6371
    /\ Abs((apogee + perigee) - 2 * 35786) < 2 * 500
    /\ Abs(period - 1436) < 30
    /\ Abs(inclination) < 5 * 10
    /\ regime.regime = "HEO"

\* the regime of the orbit classified, had the call been made with period T
\* and inclination inc
RegimeWith(T, inc) == DetermineOrbitRegime(apogee, perigee, T, inc).regime

\* C26: for positive apogee, perigee and period and an eccentricity of at
\* most 0.25, an average altitude of at most 35286 km or at least 35786 km
\* fixes the regime: the call returns what it returns for every other
\* positive period and every other inclination.
RegimeIgnoresPeriodOutsideLowerWindow ==
    (/\ rpc = "done"
     /\ apogee > 0 /\ perigee > 0 /\ period > 0
     /\ 4 * (apogee - perigee) <= apogee + perigee + 2 * 6371
     /\ \/ apogee + perigee <= 2 * 35286
        \/ apogee + perigee >= 2 * 35786)
      => \A T \in Periods : \A inc \in Inclinations :
           T > 0 => RegimeWith(T, inc) = regime.regime

\* an orbit above the geostationary altitude has been classified GEO by the
\* window test, and is GEO by the altitude alone with period and inclination
\* outside the window
WitnessGeoEitherWay ==
    /\ rpc = "done"
    /\ apogee + perigee > 2 * 35786
    /\ regime = Return(RegimeGEO, "geo-window")
    /\ DetermineOrbitRegime(apogee, perigee, 92, 516)
         = Return(RegimeGEO, "geo-altitude")

----------------------------------------------------------------------------
(* Properties of the coordinate transform *)

\* the failure the specification names for a zero range
ErrDegenerateGeometry == "DegenerateGeometry"

\* the satellite is at the observer's ECEF position
Coincides ==
    /\ FEq(satPos.X, ObserverECEF(observer).X)
    /\ FEq(satPos.Y, ObserverECEF(observer).Y)
    /\ FEq(satPos.Z, ObserverECEF(observer).Z)

\* C6: when the satellite position equals the observer's ECEF position (range
\* zero), the call fails with DegenerateGeometry and returns no
\* ObservationAngles whose elevation or range-rate is NaN or infinite.
ZeroRangeReportsDegenerateGeometry ==
    (opc = "done" /\ Coincides) =>
      /\ observeErr = ErrDegenerateGeometry
      /\ \/ angles.isNil
         \/ /\ IsFinite(angles.val.Elevation)
            /\ IsFinite(angles.val.RangeRate)

\* C10: for a satellite position other than the observer's, the returned
\* azimuth is at least 0 and below 360; 360 itself is never returned.
AzimuthInHalfOpenRange ==
    (opc = "done" /\ ~Coincides) =>
      /\ IsFinite(angles.val.Azimuth)
      /\ ~FLess(angles.val.Azimuth, Zero)
      /\ FLess(angles.val.Azimuth, Whole(360))

\* C11: for a satellite position other than the observer's, the returned range
\* is at least 0 and the returned elevation is a number from -90 to 90, never
\* NaN (the argument of the inverse sine being kept within [-1, 1]).
RangeAndElevationInBounds ==
    (opc = "done" /\ ~Coincides) =>
      /\ ~IsNaN(angles.val.Range)
      /\ ~FLess(angles.val.Range, Zero)
      /\ ~IsNaN(angles.val.Elevation)
      /\ ~FLess(angles.val.Elevation, Whole(-90))
      /\ ~FLess(Whole(90), angles.val.Elevation)

\* the satellite lies on the observer's local zenith: on the ECEF x-axis,
\* further out than the observer at latitude 0, longitude 0
OnZenith ==
    /\ observer.Latitude = 0
    /\ observer.Longitude = 0
    /\ FLess(ObserverECEF(observer).X, satPos.X)
    /\ FEq(satPos.Y, Zero)
    /\ FEq(satPos.Z, Zero)

\* the height of the satellite above the observer, km
HeightAboveObserver == FSub(satPos.X, ObserverECEF(observer).X)

\* C12: for a satellite exactly on the observer's zenith the call returns
\* elevation exactly 90, azimuth exactly 0 and a range equal to the height
\* above the observer, whose altitude in metres is converted to km.
ZenithIsElevation90Azimuth0 ==
    (opc = "done" /\ OnZenith) =>
      /\ FEq(angles.val.Elevation, Whole(90))
      /\ FEq(angles.val.Azimuth, Zero)
      /\ FEq(angles.val.Range, HeightAboveObserver)

\* the part of C12 the code keeps: elevation 90 and range equal to the height
ZenithElevationAndRange ==
    (opc = "done" /\ OnZenith) =>
      /\ FEq(angles.val.Elevation, Whole(90))
      /\ FEq(angles.val.Range, HeightAboveObserver)

\* the tolerance of a time step for the change of the distance, 1/TimeScale s
TimeScale == 100

\* the line of sight from the observer to the satellite (ECEF) and the
\* satellite's velocity
LineOfSight ==
    [X |-> FSub(satPos.X, ObserverECEF(observer).X),
     Y |-> FSub(satPos.Y, ObserverECEF(observer).Y),
     Z |-> FSub(satPos.Z, ObserverECEF(observer).Z)]
Velocity == [X |-> satPos.Vx, Y |-> satPos.Vy, Z |-> satPos.Vz]

NormSq(w) == FAdd(FAdd(FMul(w.X, w.X), FMul(w.Y, w.Y)), FMul(w.Z, w.Z))
Dot(u, w) == FAdd(FAdd(FMul(u.X, w.X), FMul(u.Y, w.Y)), FMul(u.Z, w.Z))
\* u + k w / TimeScale
Moved(u, w, k) ==
    [X |-> FAdd(u.X, FDiv(FMul(Whole(k), w.X), Whole(TimeScale))),
     Y |-> FAdd(u.Y, FDiv(FMul(Whole(k), w.Y), Whole(TimeScale))),
     Z |-> FAdd(u.Z, FDiv(FMul(Whole(k), w.Z), Whole(TimeScale)))]

\* every component of w is zero or of ordinary magnitude: sums of such values
\* are exact
Ordinary(w) ==
    \A c \in {w.X, w.Y, w.Z} : IsFinite(c) /\ (c.num = 0 \/ c.lvl = 0)

\* the satellite approaches: a moment later it is closer to the observer;
\* it recedes: a moment earlier it was closer
Approaches ==
    /\ Ordinary(LineOfSight)
    /\ FLess(NormSq(Moved(LineOfSight, Velocity, 1)), NormSq(LineOfSight))
Recedes ==
    /\ Ordinary(LineOfSight)
    /\ FLess(NormSq(Moved(LineOfSight, Velocity, -1)), NormSq(LineOfSight))

\* the velocity is not zero and points along the line of sight
AlongLineOfSight ==
    LET d == LineOfSight
        w == Velocity
    IN  /\ ~FEq(NormSq(w), Zero)
        /\ FEq(FSub(FMul(d.Y, w.Z), FMul(d.Z, w.Y)), Zero)
        /\ FEq(FSub(FMul(d.Z, w.X), FMul(d.X, w.Z)), Zero)
        /\ FEq(FSub(FMul(d.X, w.Y), FMul(d.Y, w.X)), Zero)
Perpendicular == FEq(Dot(LineOfSight, Velocity), Zero)

\* |v|, and equality with a value y >= 0 up to the rounding of a square root
Speed == FSqrt(NormSq(Velocity))
Near(x, y) ==
    /\ IsFinite(x)
    /\ IsFinite(y)
    /\ ~FLess(y, FMul(FSub(x, y), Whole(SqrtScale)))
    /\ ~FLess(y, FMul(FSub(y, x), Whole(SqrtScale)))

----------------------------------------------------------------------------
(* Properties of the propagation layer *)

\* the times PropagateRange samples: startTime, startTime + stepSize, ... up
\* to endTime
SampleTimes ==
    {u \in Times : /\ startTime <= u
                   /\ u <= endTime
                   /\ IF stepSize <= 0 THEN u = startTime
                      ELSE (u - startTime) % stepSize = 0}

\* C14: PropagateSatellite returns a nil position with an error for a nil TLE
\* or a failed integration and otherwise a position stamped with the
\* requested time with a nil error; and a call of FindPasses (through
\* CalculateObservationAnglesRange and PropagateRange) in which the
\* propagation of some sample failed returns a nil result with an error.
PropagationFailureIsReturned ==
    /\ \A tl \in {NilTLE, SomeTLE}, u \in Times :
         LET r == PropagateSatellite(tl, u)
         IN  IF tl = NilTLE \/ ~sgp4[u].ok
               THEN r.pos.isNil /\ r.err # NoErr
               ELSE /\ ~r.pos.isNil
                    /\ r.pos.val.Time = u
                    /\ r.err = NoErr
    /\ (pc = "done" /\ \E u \in SampleTimes :
                          PropagateSatellite(tle, u).err # NoErr) =>
         /\ result.isNil
         /\ err # NoErr
         /\ observations = << >>

\* the propagation fails after two samples were propagated
WitnessLateFailure ==
    /\ pc = "done"
    /\ Len(positions) = 2
    /\ \E u \in SampleTimes : u > startTime /\ ~sgp4[u].ok
    /\ result.isNil
    /\ err = ErrPropagation

\* the propagation fails at no time
NeverFailing == tle = SomeTLE /\ \A u \in Times : sgp4[u].ok

\* startTime + k*stepSize for k = 0..floor((endTime - startTime)/stepSize)
Grid ==
    [k \in 1..((endTime - startTime) \div stepSize + 1) |->
       startTime + (k - 1) * stepSize]

\* C24: for startTime <= endTime, stepSize > 0 and no propagation failure
\* PropagateRange returns the positions at startTime + k*stepSize for
\* k = 0..floor((endTime - startTime)/stepSize) in increasing order of time
\* (the start sample always, endTime only when it is on the grid, one sample
\* when endTime = startTime) and CalculateObservationAnglesRange one
\* observation per position with its time stamp, in the same order; with
\* endTime before startTime an error and no positions are returned.
SamplesAreTheStepGrid ==
    /\ (NeverFailing /\ startTime <= endTime /\ stepSize > 0
          /\ pc \in {"scan", "done"}) =>
         /\ Len(positions) = Len(Grid)
         /\ \A k \in 1..Len(Grid) : positions[k].Time = Grid[k]
         /\ \A k \in 1..(Len(positions) - 1) :
               positions[k].Time < positions[k + 1].Time
         /\ positions[1].Time = startTime
         /\ (\E k \in 1..Len(positions) : positions[k].Time = endTime)
               <=> (endTime - startTime) % stepSize = 0
         /\ endTime = startTime => Len(positions) = 1
         /\ Len(observations) = Len(positions)
         /\ \A k \in 1..Len(positions) :
               observations[k] = ObservationOf(positions[k])
    /\ (endTime < startTime /\ pc # "PropagateRange") =>
         /\ pc = "done"
         /\ err # NoErr
         /\ result.isNil
         /\ positions = << >>

\* a range whose end is off the grid of the step: two samples, the last one
\* before endTime
WitnessEndOffGrid ==
    /\ pc = "scan"
    /\ NeverFailing
    /\ stepSize = 2
    /\ endTime = 3
    /\ Len(observations) = 2
    /\ observations[2].Time = 2
    /\ observations[1].Elevation # observations[2].Elevation

\* C25: with startTime <= endTime and the propagation never failing, the
\* sampling loop ends if and only if stepSize > 0: with a positive step the
\* call returns after finitely many samples, with a step of zero or less
\* the loop variable never passes endTime and the call never returns.
SamplingEndsIffStepIsPositive ==
    /\ (NeverFailing /\ startTime <= endTime /\ stepSize > 0)
          => <>(pc = "done" /\ err = NoErr)
    /\ (NeverFailing /\ startTime <= endTime /\ stepSize <= 0)
          => [](pc \in {"PropagateRange", "sample"} /\ t <= endTime)

\* the loop has gone backwards from startTime as far as the model follows it
WitnessSteppingBackwards ==
    /\ pc = "sample"
    /\ NeverFailing
    /\ startTime < endTime
    /\ stepSize < 0
    /\ t < startTime
    /\ Len(positions) = MaxSamples

----------------------------------------------------------------------------
(* Properties of the catalog search *)

\* the place of a letter in the alphabet, 0 for any other character
LetterIndex(ch) ==
    IF \E i \in 1..Len(Lowers) : ch \in {Lowers[i], Uppers[i]}
      THEN CHOOSE i \in 1..Len(Lowers) : ch \in {Lowers[i], Uppers[i]}
      ELSE 0
SameIgnoringCase(a, b) ==
    a = b \/ (LetterIndex(a) > 0 /\ LetterIndex(a) = LetterIndex(b))
EqualIgnoringCase(str, other) ==
    /\ Len(str) = Len(other)
    /\ \A k \in 1..Len(str) : SameIgnoringCase(str[k], other[k])
ContainsIgnoringCase(str, sub) ==
    \E off \in 0..(Len(str) - Len(sub)) :
        \A k \in 1..Len(sub) : SameIgnoringCase(str[off + k], sub[k])

\* sat meets every criterion of c that is not empty
Meets(sat, c) ==
    /\ c.Name # << >> => ContainsIgnoringCase(sat.Name, c.Name)
    /\ c.Owner # << >> => ContainsIgnoringCase(sat.Owner, c.Owner)
    /\ c.Type # << >> => ContainsIgnoringCase(sat.ObjectType, c.Type)
    /\ c.Regime # << >> => EqualIgnoringCase(sat.OrbitRegime, c.Regime)

\* how often x occurs in the slice sq
Count(sq, x) == Cardinality({i \in 1..Len(sq) : sq[i] = x})

NoCriteria ==
    /\ criteria.Name = << >>
    /\ criteria.Owner = << >>
    /\ criteria.Type = << >>
    /\ criteria.Regime = << >>

\* C16: SearchSatellites returns exactly the entries of the input slice that
\* meet every non-empty criterion (name, owner, type as case-insensitive
\* substrings, regime as case-insensitive equality), each as often as the
\* input holds it and no more, in ascending order of NORAD ID; with no
\* criterion set it returns every entry; and the input slice is left as it
\* was.
SearchReturnsMatchesByNoradID ==
    /\ [](spc = "searched" =>
            /\ \A x \in SatellitePool :
                  Count(results.val, x) =
                    IF Meets(x, criteria) THEN Count(satellites, x) ELSE 0
            /\ \A i, j \in 1..Len(results.val) :
                  i < j => results.val[i].NoradID <= results.val[j].NoradID
            /\ NoCriteria => Len(results.val) = Len(satellites))
    /\ [][satellites' = satellites]_vars

\* a search by the regime "LE" over a slice that is not in NORAD-ID order and
\* holds both a "LEO" and an "LE" entry: only the latter comes back
WitnessRegimeIsNotAPrefixMatch ==
    /\ spc = "searched"
    /\ criteria.Regime = <<"L", "E">>
    /\ criteria.Name # << >>
    /\ \E i, j \in 1..Len(satellites) :
          /\ i < j
          /\ satellites[i].NoradID > satellites[j].NoradID
          /\ satellites[i].OrbitRegime = <<"L", "E", "O">>
    /\ Len(results.val) > 0

\* the elevation at which a catalog entry stands, when it has one
HasElevation(sat) == ~sat.TLE.isNil /\ sat.TLE.val.ok
ElevationOf(sat) == sat.TLE.val.el

\* min <= e <= max
Within(e, min, max) ==
    /\ ~IsNaN(e) /\ ~IsNaN(min) /\ ~IsNaN(max)
    /\ ~FLess(e, min)
    /\ ~FLess(max, e)

\* C15: FindVisibleSatellites returns exactly the input entries that meet
\* the search criteria, have a TLE, propagate without error and stand at an
\* elevation e with MinElevation <= e <= MaxElevation, each with that
\* elevation, in order of non-increasing elevation; entries without a TLE or
\* with a failed propagation are left out and the error returned is nil.
VisibleAreExactlyThoseInBounds ==
    spc = "found" =>
        /\ visErr = NoErr
        /\ \A x \in SatellitePool :
              Cardinality({i \in 1..Len(visible.val) :
                             visible.val[i].Satellite = x}) =
                IF /\ Meets(x, criteria)
                   /\ HasElevation(x)
                   /\ Within(ElevationOf(x), criteria.MinElevation,
                             criteria.MaxElevation)
                  THEN Count(satellites, x)
                  ELSE 0
        /\ \A i \in 1..Len(visible.val) :
              visible.val[i].Angles.Elevation =
                ElevationOf(visible.val[i].Satellite)
        /\ \A i, j \in 1..Len(visible.val) :
              i < j => ~FLess(visible.val[i].Angles.Elevation,
                              visible.val[j].Angles.Elevation)

\* a search over a slice holding an entry without TLE, an entry whose
\* propagation fails and an entry standing exactly at MaxElevation: the
\* first two are left out, the third is returned
WitnessBadEntriesSkipped ==
    /\ spc = "found"
    /\ \E i, j, k \in 1..Len(satellites) :
          /\ satellites[i].TLE.isNil
          /\ Meets(satellites[i], criteria)
          /\ ~satellites[j].TLE.isNil /\ ~satellites[j].TLE.val.ok
          /\ Meets(satellites[j], criteria)
          /\ HasElevation(satellites[k])
          /\ ElevationOf(satellites[k]) = criteria.MaxElevation
    /\ Len(visible.val) = 1
    /\ visErr = NoErr

----------------------------------------------------------------------------
(* Properties of the merge *)

\* the positive NORAD IDs GetNoradID extracts from the TLEs
PositiveIDs == {n \in {GetNoradID(tles[i]) : i \in 1..Len(tles)} : n > 0}

----------------------------------------------------------------------------
(* Properties of the staleness test *)

\* the catalog's age and the age limit, in quarter hours without bound
AgeOfCatalog == now - catalog.val.FetchedAt
AgeLimit == config.MaxCatalogAge * Hour

LimitIsADuration == AgeLimit \in MinDuration..MaxDuration

----------------------------------------------------------------------------
(* Properties of the storage *)

\* c and d are both nil, or catalogs of the same satellites fetched at the
\* same instant
SameCatalog(c, d) ==
    IF c.isNil \/ d.isNil THEN c.isNil /\ d.isNil
    ELSE /\ c.val.Satellites = d.val.Satellites
         /\ c.val.FetchedAt = d.val.FetchedAt

\* C19: until the first Save that succeeds, Load returns (nil, nil) and
\* Exists returns false; after a Save(c) that succeeded Exists returns true
\* and Load returns a catalog equal to the c saved last; Load and Exists
\* leave the stored catalog as it is.
StorageHoldsLastSavedCatalog ==
    /\ [](/\ call.op = "Load" /\ ~saved.any
              => call.catalog.isNil /\ call.err = NoErr
          /\ call.op = "Exists" /\ ~saved.any => ~call.found
          /\ call.op = "Exists" /\ saved.any => call.found
          /\ call.op = "Load" /\ saved.any
              => call.err = NoErr /\ SameCatalog(call.catalog, saved.catalog))
    /\ [][call'.op \in {"Load", "Exists"} => file' = file]_vars

----------------------------------------------------------------------------
(* Properties of the stats command *)

Printed(line) == \E i \in 1..Len(output) : output[i] = line

\* runStats has loaded and found no stored catalog
FoundNoCatalog == stpc \in {"fetch", "returned", "exit-fetch"} /\ catalog.isNil

\* C20: when the stats command finds no stored catalog, with auto_fetch
\* enabled it runs a fetch and returns without printing statistics, with
\* auto_fetch disabled it runs no fetch and prints only the hint to run
\* 'icu fetch'; statistics are printed only for a catalog that exists and
\* is not stale.
StatsFetchesOrHintsWithoutCatalog ==
    /\ FoundNoCatalog /\ config.AutoFetch
         => /\ ~Printed(LineStatistics)
            /\ stpc = "fetch" \/ fetches = 1
    /\ FoundNoCatalog /\ ~config.AutoFetch
         => /\ fetches = 0
            /\ stpc = "returned"
            /\ output = <<LineHint>>
    /\ Printed(LineStatistics)
         => /\ ~catalog.isNil
            /\ \/ config.MaxCatalogAge = 0
               \/ ~LimitIsADuration
               \/ AgeOfCatalog <= AgeLimit

\* the command has found no catalog with auto_fetch enabled, fetched one and
\* returned
WitnessFetchedForWantOfCatalog ==
    /\ stpc = "returned"
    /\ catalog.isNil
    /\ config.AutoFetch
    /\ fetches = 1
    /\ output = <<LineFetching, LineFetched>>
    /\ file.exists

\* C28: the stats command fetches only with auto_fetch enabled: with
\* auto_fetch disabled it calls runFetch neither for a missing catalog nor
\* for a stale one.
StatsFetchesOnlyWithAutoFetch ==
    ~config.AutoFetch => (stpc # "fetch" /\ fetches = 0)

----------------------------------------------------------------------------
(* Properties of runFetch *)

\* C27: a fetch saves only after both downloads have succeeded: when the TLE
\* or the SATCAT download fails, Save is not called and catalog.json is left
\* as it was, and after a failed TLE download the SATCAT endpoint is not
\* requested.
FetchSavesOnlyAfterBothFetches ==
    /\ [](fetchErr \in {"failed to fetch TLEs", "failed to fetch SATCATs"}
            => /\ call.op # "Save"
               /\ ~saved.any
               /\ stpc = "exit-fetch")
    /\ [](fetchErr = "failed to fetch TLEs" => requests = <<"tle">>)
    /\ [](call.op = "Save"
            => /\ requests = <<"tle", "satcat">>
               /\ fetchErr \notin {"failed to fetch TLEs",
                                   "failed to fetch SATCATs"})
    /\ [][fetchErr' \in {"failed to fetch TLEs", "failed to fetch SATCATs"}
            => file' = file]_vars

\* the SATCAT download has failed after the TLE download, and the catalog
\* stored before is still whole
WitnessSatcatFetchFailed ==
    /\ stpc = "exit-fetch"
    /\ fetchErr = ErrFetchSATCATs
    /\ requests = <<EndpointTLE, EndpointSATCAT>>
    /\ file.exists /\ file.whole /\ file.json.kind = "object"
    /\ call = NoCall

----------------------------------------------------------------------------
(* Properties of Client.FetchTLEs *)

IsBlank(line) == \A k \in 1..Len(line) : line[k] \in {" ", "\t"}

\* the lines of the body that are not blank, in order
NonBlank(lines) == SelectSeq(lines, LAMBDA line : ~IsBlank(line))

\* text is line without the white space at its ends
IsTrimmed(line, text) ==
    /\ text # << >>
    /\ ~IsBlank(<<text[1]>>)
    /\ ~IsBlank(<<text[Len(text)]>>)
    /\ \E i \in 0..Len(line) :
         /\ i + Len(text) <= Len(line)
         /\ IsBlank(SubSeq(line, 1, i))
         /\ SubSeq(line, i + 1, i + Len(text)) = text
         /\ IsBlank(SubSeq(line, i + Len(text) + 1, Len(line)))

\* the TLEs returned, the nil slice being the empty one
TLEsFetched == IF fetched.tles.isNil THEN << >> ELSE fetched.tles.val

\* the endpoint answered 200 with a body read whole whose lines fit the
\* buffer of the Scanner
BodyScanned ==
    /\ ~response.err
    /\ response.status = 200
    /\ ~response.readErr
    /\ \A k \in 1..Len(response.body) : response.body[k] # LongLine

\* C29: FetchTLEs pairs the non-blank lines of the body in order, each
\* without the white space at its ends: the k-th TLE has the (2k-1)-th as
\* Line1 and the 2k-th as Line2, so that n non-blank lines give n \div 2
\* TLEs, blank lines being ignored and an unpaired last line dropped.
TLEsPairNonBlankLines ==
    /\ (fpc = "done" /\ BodyScanned) => fetched.err = NoErr
    /\ (fpc = "done" /\ fetched.err = NoErr) =>
         /\ Len(TLEsFetched) = Len(NonBlank(response.body)) \div 2
         /\ \A k \in 1..Len(TLEsFetched) :
              /\ IsTrimmed(NonBlank(response.body)[2 * k - 1],
                           TLEsFetched[k].Line1)
              /\ IsTrimmed(NonBlank(response.body)[2 * k],
                           TLEsFetched[k].Line2)

\* a body with a blank line between the two lines of an entry, white space
\* around a line and an unpaired last line has given one TLE
WitnessBlankBetweenAndOddLine ==
    /\ fpc = "done"
    /\ fetched.err = NoErr
    /\ response.body = << <<" ", "1", " ">>, <<"\t", " ">>, <<"2", "\t">>,
                          <<"a", " ", "b">> >>
    /\ TLEsFetched = << [Line1 |-> <<"1">>, Line2 |-> <<"2">>] >>

----------------------------------------------------------------------------
(* Properties of the get command *)

\* the sections displayed for the i-th satellite of filtered
PartsFor(i) ==
    {shown[k].part : k \in {j \in 1..Len(shown) : shown[j].sat = i}}

\* the TLE of sat yields a position
Flying(sat) == ~sat.TLE.isNil /\ sat.TLE.val.ok

\* C23: FilterSatellites returns every satellite when the id is 0 and the
\* name empty; otherwise it returns, in input order, exactly the satellites
\* with the NORAD ID given, when one is given, and with the name given
\* ignoring case, when one is given.
FilterReturnsMatchesOfIdAndName ==
    (gpc \in {"returned", "select"} /\ ~catalog.isNil) =>
      filtered =
        IF noradID = 0 /\ satName = << >> THEN SatellitesOf(catalog)
        ELSE SelectSeq(SatellitesOf(catalog),
                       LAMBDA sat :
                         /\ noradID # 0 => sat.NoradID = noradID
                         /\ satName # << >>
                              => EqualIgnoringCase(sat.Name, satName))

\* runGet reaches its display with the satellites found
GetDisplays ==
    /\ gpc = "start"
    /\ gpc' \in {"returned", "select"}
    /\ filtered' # << >>

PositionsShown ==
    SelectSeq(shown, LAMBDA p : p.part \in {"position", "error"})

\* C21: in the update loop of follow mode every tick received has the
\* position computed for that instant and displayed, and a tick that has
\* fired is received unless a signal arrives; once SIGINT or SIGTERM has
\* been delivered the loop is left in the end, and no position is
\* displayed after that.
FollowRedisplaysUntilInterrupted ==
    /\ [][(gpc = "select" /\ tickerC /\ ~tickerC') =>
            /\ Last(shown').part \in {"position", "error"}
            /\ Last(shown').at = clock
            /\ Flying(filtered[1]) => Last(shown').part = "position"
            /\ gpc' = "select"]_vars
    /\ (gpc = "select" /\ tickerC)
          ~> (\/ gpc = "select" /\ ~tickerC /\ Last(shown).at = clock
              \/ sigChan
              \/ gpc = "returned")
    /\ (gpc = "select" /\ sigChan) ~> (gpc = "returned")
    /\ [][(gpc \in {"select", "returned"} /\ gpc' = "returned")
            => PositionsShown' = PositionsShown]_vars

\* the loop has been left on a signal after the position of a later second
\* was displayed, with a tick still waiting
WitnessInterruptedWithTickWaiting ==
    /\ gpc = "returned"
    /\ Last(shown) = Msg(MsgExiting)
    /\ tickerC
    /\ Len(PositionsShown) = 1
    /\ PositionsShown[1].at >= 1

====
